---- MODULE Spec2Model ----
(***************************************************************************)
(* Model of the report dashboard (src/unnamed/part_000, the later and more *)
(* complete of the two App variants; src/src/App.tsx is the earlier one).  *)
(*                                                                         *)
(* Text is a sequence of one-glyph strings, so that trimming, splitting,   *)
(* substring search and the regular expressions of the source are computed *)
(* character by character.  CJK glyphs of the source are written as ASCII  *)
(* tokens ("nian" for the year glyph, "yue" for the month glyph, ...).     *)
(* Numbers are exact rationals <<numerator, denominator>>.  Amounts are in *)
(* thousands (the seed's 1200000 is 1200).                                 *)
(* Row fields: month = 月份, agent = 代理商, store = 商戶, open = 開分量,   *)
(* rev = 營業額, ratio = 比率 (the pass-through extras are not modelled).   *)
(***************************************************************************)
EXTENDS Integers, Sequences, FiniteSets, TLC

(* ------------------------------ text ---------------------------------- *)

\* JavaScript's undefined / null: a one-glyph text no input ever contains.
Undef == <<"undefined">>

Digits == {"0", "1", "2", "3", "4", "5", "6", "7", "8", "9"}

IsDigit(c) == c \in Digits

\* The white space the inputs use (\s of the regular expressions, trim()).
IsSpace(c) == c = " "

DigitVal(c) ==
  CASE c = "0" -> 0 [] c = "1" -> 1 [] c = "2" -> 2 [] c = "3" -> 3
    [] c = "4" -> 4 [] c = "5" -> 5 [] c = "6" -> 6 [] c = "7" -> 7
    [] c = "8" -> 8 [] c = "9" -> 9

DigitChar(n) ==
  CASE n = 0 -> "0" [] n = 1 -> "1" [] n = 2 -> "2" [] n = 3 -> "3"
    [] n = 4 -> "4" [] n = 5 -> "5" [] n = 6 -> "6" [] n = 7 -> "7"
    [] n = 8 -> "8" [] n = 9 -> "9"

\* s.slice(i-1, j) with 1-based inclusive indices; empty when i > j.
Slice(s, i, j) == IF i > j THEN <<>> ELSE SubSeq(s, i, j)

RECURSIVE TrimStart(_)
TrimStart(s) ==
  IF s # <<>> /\ IsSpace(Head(s)) THEN TrimStart(Tail(s)) ELSE s

RECURSIVE TrimEnd(_)
TrimEnd(s) ==
  IF s # <<>> /\ IsSpace(s[Len(s)]) THEN TrimEnd(Slice(s, 1, Len(s) - 1)) ELSE s

\* String.prototype.trim
Trim(s) == TrimEnd(TrimStart(s))

\* String.prototype.includes
Includes(s, t) ==
  \E i \in 1..(Len(s) - Len(t) + 1) : Slice(s, i, i + Len(t) - 1) = t

UpperLetters == <<"A", "B", "C", "G", "K", "M", "X">>
LowerLetters == <<"a", "b", "c", "g", "k", "m", "x">>

LowerChar(c) ==
  IF \E i \in 1..Len(UpperLetters) : UpperLetters[i] = c
  THEN LowerLetters[CHOOSE i \in 1..Len(UpperLetters) : UpperLetters[i] = c]
  ELSE c

\* String.prototype.toLowerCase
ToLowerCase(s) == [i \in 1..Len(s) |-> LowerChar(s[i])]

\* s.replace(/[\,\s%]/g, "")
RECURSIVE StripNumNoise(_)
StripNumNoise(s) ==
  IF s = <<>> THEN <<>>
  ELSE IF Head(s) = "," \/ IsSpace(Head(s)) \/ Head(s) = "%"
       THEN StripNumNoise(Tail(s))
       ELSE <<Head(s)>> \o StripNumNoise(Tail(s))

\* Value of a non-empty run of decimal digits.
RECURSIVE DigitsToNat(_)
DigitsToNat(s) ==
  IF s = <<>> THEN 0
  ELSE 10 * DigitsToNat(Slice(s, 1, Len(s) - 1)) + DigitVal(s[Len(s)])

\* String(n) for a natural number n.
RECURSIVE NatToDigits(_)
NatToDigits(n) ==
  IF n < 10 THEN <<DigitChar(n)>>
  ELSE NatToDigits(n \div 10) \o <<DigitChar(n % 10)>>

\* s.padStart(2, "0")
PadStart2(s) == IF Len(s) >= 2 THEN s ELSE IF Len(s) = 1 THEN <<"0">> \o s ELSE <<"0", "0">>

AllDigits(s) == \A i \in 1..Len(s) : IsDigit(s[i])

(* ---------------------------- rationals ------------------------------- *)

RECURSIVE Gcd(_, _)
Gcd(a, b) == IF b = 0 THEN a ELSE Gcd(b, a % b)

Abs(x) == IF x < 0 THEN -x ELSE x

\* The rational n/d in lowest terms with a positive denominator.
Rat(n, d) ==
  LET g == Gcd(Abs(n), Abs(d))
      s == IF d < 0 THEN -1 ELSE 1
  IN  <<(s * n) \div g, (s * d) \div g>>

Zero == <<0, 1>>

RatDiv(x, y) == Rat(x[1] * y[2], x[2] * y[1])

RatSub(x, y) == Rat(x[1] * y[2] - y[1] * x[2], x[2] * y[2])

RatAdd(x, y) == Rat(x[1] * y[2] + y[1] * x[2], x[2] * y[2])

RatLess(x, y) == x[1] * y[2] < y[1] * x[2]

RECURSIVE Pow10(_)
Pow10(k) == IF k = 0 THEN 1 ELSE 10 * Pow10(k - 1)

\* Not-a-number, the result of Number() on text that is no numeric literal.
NaN == <<0, 0>>

\* Number(s) for s without white space: "" is 0; an optional sign, then
\* digits with an optional fraction ("12", "12.", "1.5", ".5"); anything
\* else is NaN.  (Exponents, hex and Infinity use letters outside the
\* alphabet of the numeric inputs.)
Number(s) ==
  IF s = <<>> THEN Zero
  ELSE
    LET neg  == Head(s) = "-"
        body == IF neg \/ Head(s) = "+" THEN Tail(s) ELSE s
        dots == {i \in 1..Len(body) : body[i] = "."}
        dot  == IF dots = {} THEN Len(body) + 1 ELSE CHOOSE i \in dots : TRUE
        ip   == Slice(body, 1, dot - 1)
        fp   == Slice(body, dot + 1, Len(body))
        ok   == /\ Cardinality(dots) <= 1
                /\ AllDigits(ip) /\ AllDigits(fp)
                /\ Len(ip) + Len(fp) >= 1
        mag  == Rat(DigitsToNat(ip) * Pow10(Len(fp)) + DigitsToNat(fp), Pow10(Len(fp)))
    IN  IF ~ok THEN NaN
        ELSE IF neg THEN <<-mag[1], mag[2]>> ELSE mag

\* num: the ingestion coercer.
num(v) ==
  IF v = Undef \/ v = <<>> THEN Zero
  ELSE LET n == Number(StripNumNoise(v))
       IN  IF n # NaN THEN n ELSE Zero

(* --------------------- IEEE 754 double arithmetic -------------------- *)

\* The charts compute with JavaScript numbers.  A natural number of any
\* size is a list of limbs, least significant first, without leading zeros.
Base == 32768

RECURSIVE BNorm(_)
BNorm(a) ==
  IF a # <<>> /\ a[Len(a)] = 0 THEN BNorm(SubSeq(a, 1, Len(a) - 1)) ELSE a

RECURSIVE BFromInt(_)
BFromInt(n) == IF n = 0 THEN <<>> ELSE <<n % Base>> \o BFromInt(n \div Base)

RECURSIVE BToInt(_)
BToInt(a) == IF a = <<>> THEN 0 ELSE a[1] + Base * BToInt(Tail(a))

RECURSIVE BCmpFrom(_, _, _)
BCmpFrom(a, b, i) ==
  IF i = 0 THEN 0
  ELSE IF a[i] < b[i] THEN -1
  ELSE IF a[i] > b[i] THEN 1
  ELSE BCmpFrom(a, b, i - 1)

\* -1, 0 or 1 as a < b, a = b or a > b.
BCmp(a, b) ==
  IF Len(a) < Len(b) THEN -1
  ELSE IF Len(a) > Len(b) THEN 1
  ELSE BCmpFrom(a, b, Len(a))

RECURSIVE BAddC(_, _, _)
BAddC(a, b, c) ==
  IF a = <<>> /\ b = <<>> THEN (IF c = 0 THEN <<>> ELSE <<c>>)
  ELSE LET x == (IF a = <<>> THEN 0 ELSE a[1]) + (IF b = <<>> THEN 0 ELSE b[1]) + c
       IN  <<x % Base>> \o BAddC(IF a = <<>> THEN a ELSE Tail(a),
                                 IF b = <<>> THEN b ELSE Tail(b), x \div Base)

BAdd(a, b) == BAddC(a, b, 0)

RECURSIVE BSubB(_, _, _)
BSubB(a, b, br) ==
  IF a = <<>> THEN <<>>
  ELSE LET x == a[1] - (IF b = <<>> THEN 0 ELSE b[1]) - br
       IN  <<IF x < 0 THEN x + Base ELSE x>>
             \o BSubB(Tail(a), IF b = <<>> THEN b ELSE Tail(b), IF x < 0 THEN 1 ELSE 0)

\* a - b for a >= b.
BSub(a, b) == BNorm(BSubB(a, b, 0))

RECURSIVE BMulSmallC(_, _, _)
BMulSmallC(a, k, c) ==
  IF a = <<>> THEN (IF c = 0 THEN <<>> ELSE <<c>>)
  ELSE LET x == a[1] * k + c
       IN  <<x % Base>> \o BMulSmallC(Tail(a), k, x \div Base)

\* a * k for 0 <= k < Base.
BMulSmall(a, k) == IF k = 0 THEN <<>> ELSE BMulSmallC(a, k, 0)

RECURSIVE BMul(_, _)
BMul(a, b) ==
  IF a = <<>> \/ b = <<>> THEN <<>>
  ELSE BAdd(BMulSmall(a, b[1]),
            LET rest == BMul(a, Tail(b)) IN IF rest = <<>> THEN rest ELSE <<0>> \o rest)

Pow2(k) == 2 ^ k

\* The number of bits of a limb.
BitLenSmall(n) == CHOOSE k \in 0..15 : n < 2 ^ k /\ (k = 0 \/ n >= 2 ^ (k - 1))

BBitLen(a) == IF a = <<>> THEN 0 ELSE 15 * (Len(a) - 1) + BitLenSmall(a[Len(a)])

\* a * 2^k
BShl(a, k) ==
  IF a = <<>> THEN a
  ELSE [i \in 1..(k \div 15) |-> 0] \o BMulSmall(a, Pow2(k % 15))

RECURSIVE BDivSmallR(_, _, _)
BDivSmallR(a, d, r) ==
  IF a = <<>> THEN <<>>
  ELSE LET x == r * Base + a[Len(a)]
       IN  BDivSmallR(SubSeq(a, 1, Len(a) - 1), d, x % d) \o <<x \div d>>

\* floor(a / 2^k)
BShr(a, k) ==
  IF k \div 15 >= Len(a) THEN <<>>
  ELSE BNorm(BDivSmallR(SubSeq(a, k \div 15 + 1, Len(a)), Pow2(k % 15), 0))

\* Bit i of a (bit 0 is the lowest).
BBit(a, i) ==
  IF i < 0 \/ i \div 15 + 1 > Len(a) THEN 0
  ELSE (a[i \div 15 + 1] \div Pow2(i % 15)) % 2

\* Some bit of a below bit k is set.
BLowBits(a, k) == k > 0 /\ BShl(BShr(a, k), k) # a

\* One digit of a long division: <<q, r - q * d>> for the q with
\* q * d <= r < (q + 1) * d, where r < d * Base and the top limb of d is at
\* least Base / 2.  The quotient of the top two limbs of r by the top limb
\* of d is q, q + 1 or q + 2.
BDivDigit(r, d) ==
  LET Limb(i) == IF i <= Len(r) THEN r[i] ELSE 0
      Taken(q) == <<q, BSub(r, BMulSmall(d, q))>>
      Fitting(q) ==
        IF BCmp(BMulSmall(d, q), r) <= 0 THEN Taken(q)
        ELSE IF BCmp(BMulSmall(d, q - 1), r) <= 0 THEN Taken(q - 1)
        ELSE Taken(q - 2)
      Guess(q) == Fitting(IF q > Base - 1 THEN Base - 1 ELSE q)
  IN  Guess((Limb(Len(d) + 1) * Base + Limb(Len(d))) \div d[Len(d)])

\* Long division of n by d down to limb i, begun with the top Len(d) - 1
\* limbs of n as the remainder: <<quotient, remainder>>.
RECURSIVE BDivLimbs(_, _, _)
BDivLimbs(n, d, i) ==
  IF i > Len(n) - Len(d) + 1 THEN <<<<>>, BNorm(SubSeq(n, i, Len(n)))>>
  ELSE LET Digit(quo, step) ==
             <<IF step[1] = 0 /\ quo = <<>> THEN <<>> ELSE <<step[1]>> \o quo, step[2]>>
           Bring(prev) ==
             IF prev[2] = <<>> /\ n[i] = 0
             THEN <<IF prev[1] = <<>> THEN <<>> ELSE <<0>> \o prev[1], <<>>>>
             ELSE Digit(prev[1], BDivDigit(<<n[i]>> \o prev[2], d))
       IN  Bring(BDivLimbs(n, d, i + 1))

\* <<floor(n / d), n mod d>> for d > 0: both are shifted until the top
\* limb of d has its top bit set, which leaves the quotient as it is.
BDivMod(n, d) ==
  LET Back(qr, sh) == <<qr[1], BShr(qr[2], sh)>>
      Shifted(sh) == Back(BDivLimbs(BShl(n, sh), BShl(d, sh), 1), sh)
  IN  Shifted(15 - BitLenSmall(d[Len(d)]))

\* A double is (-1)^s * m * 2^e with 2^52 <= m < 2^53, or zero.
FZero == [s |-> 0, m |-> <<>>, e |-> 0]

\* The double nearest to mag * 2^e, ties to the even mantissa.
RoundDyadic(s, mag, e) ==
  LET Carry(quo, k) ==
        IF BBitLen(quo) = 54 THEN [s |-> s, m |-> BShr(quo, 1), e |-> e + k + 1]
        ELSE [s |-> s, m |-> quo, e |-> e + k]
      Cut(quo, k) ==
        Carry(IF BBit(mag, k - 1) = 1 /\ (BLowBits(mag, k - 1) \/ BBit(quo, 0) = 1)
              THEN BAddC(quo, <<>>, 1) ELSE quo, k)
      Fit(len) ==
        IF len <= 53 THEN [s |-> s, m |-> BShl(mag, 53 - len), e |-> e - (53 - len)]
        ELSE Cut(BShr(mag, len - 53), len - 53)
  IN  IF mag = <<>> THEN FZero ELSE Fit(BBitLen(mag))

\* The double nearest to n / d (d > 0).
FromRat(s, n, d) ==
  LET \* one more bit below the quotient tells whether anything is left over
      Sticky(qr, sh) ==
        IF qr[2] = <<>> THEN RoundDyadic(s, BShl(qr[1], 1), -sh - 1)
        ELSE RoundDyadic(s, BAddC(BShl(qr[1], 1), <<>>, 1), -sh - 1)
      Scaled(sh) ==
        Sticky(BDivMod(IF sh >= 0 THEN BShl(n, sh) ELSE n,
                       IF sh >= 0 THEN d ELSE BShl(d, -sh)), sh)
  IN  IF n = <<>> THEN FZero ELSE Scaled(56 - (BBitLen(n) - BBitLen(d)))

\* The double of an exact rational <<n, d>>.
D(x) == FromRat(IF x[1] < 0 THEN 1 ELSE 0, BFromInt(Abs(x[1])), BFromInt(x[2]))

FNeg(a) == IF a.m = <<>> THEN a ELSE [a EXCEPT !.s = 1 - a.s]

\* a + b
FAdd(a, b) ==
  LET Aligned(am, bm, e) ==
        RoundDyadic(IF a.s = b.s \/ BCmp(am, bm) >= 0 THEN a.s ELSE b.s,
                    IF a.s = b.s THEN BAdd(am, bm)
                    ELSE IF BCmp(am, bm) >= 0 THEN BSub(am, bm) ELSE BSub(bm, am),
                    e)
      At(e) == Aligned(BShl(a.m, a.e - e), BShl(b.m, b.e - e), e)
  IN  IF a.m = <<>> THEN b
      ELSE IF b.m = <<>> THEN a
      ELSE At(IF a.e < b.e THEN a.e ELSE b.e)

\* a - b
FSub(a, b) == FAdd(a, FNeg(b))

\* a * b
FMul(a, b) ==
  IF a.m = <<>> \/ b.m = <<>> THEN FZero
  ELSE RoundDyadic(IF a.s = b.s THEN 0 ELSE 1, BMul(a.m, b.m), a.e + b.e)

\* a / b for b # 0
FDiv(a, b) ==
  FromRat(IF a.s = b.s THEN 0 ELSE 1,
          IF a.e >= b.e THEN BShl(a.m, a.e - b.e) ELSE a.m,
          IF a.e >= b.e THEN b.m ELSE BShl(b.m, b.e - a.e))

\* a < b
FLess(a, b) == FSub(a, b).s = 1

\* Math.floor(a) as an integer.
FloorInt(a) ==
  LET Down(quo) ==
        IF a.s = 0 THEN quo
        ELSE IF BLowBits(a.m, -a.e) THEN -quo - 1 ELSE -quo
  IN  IF a.e >= 0 THEN (IF a.s = 1 THEN -1 ELSE 1) * BToInt(BShl(a.m, a.e))
      ELSE Down(BToInt(BShr(a.m, -a.e)))

\* Math.ceil(a) as an integer.
CeilInt(a) == -FloorInt(FNeg(a))

\* The double of an integer.
FromInt(n) ==
  IF n = 0 THEN FZero ELSE RoundDyadic(IF n < 0 THEN 1 ELSE 0, BFromInt(Abs(n)), 0)

\* 10^k for k <= 18.
BPow10(k) ==
  IF k <= 9 THEN BFromInt(10 ^ k) ELSE BMul(BFromInt(10 ^ 9), BFromInt(10 ^ (k - 9)))

\* a.toFixed(f) read as a count of units of 10^-f: the magnitude of a
\* rounded to f decimals, halves upward.
ToFixedUnits(a, f) ==
  LET Units(p) ==
        IF a.e >= 0 THEN BShl(p, a.e)
        ELSE BAddC(BShr(p, -a.e), <<>>, BBit(p, -a.e - 1))
  IN  Units(BMul(a.m, BPow10(f)))

\* +(a.toFixed(f)): the double nearest to the rounded decimal.
ToFixed(a, f) == FromRat(a.s, ToFixedUnits(a, f), BPow10(f))

(* --------------------------- month texts ------------------------------ *)

\* The year and month glyphs (年, 月) and the "unspecified" sentinel (未指定).
Nian == "nian"
Yue == "yue"
Unspecified == <<"wei", "zhi", "ding">>

\* new Date().getFullYear(), as text.
CurrentYear == <<"2", "0", "2", "6">>

IsMonthSep(c) == c \in {"-", "/", ".", Nian}

\* Where /(20\d{2})[\-/\.年]?(\d{1,2})/ matches at position i of t: the
\* index of the first month digit, or 0 when it does not match there.
M1At(t, i) ==
  IF /\ i + 4 <= Len(t)
     /\ t[i] = "2" /\ t[i + 1] = "0" /\ IsDigit(t[i + 2]) /\ IsDigit(t[i + 3])
  THEN IF IsMonthSep(t[i + 4]) /\ i + 5 <= Len(t) /\ IsDigit(t[i + 5]) THEN i + 5
       ELSE IF IsDigit(t[i + 4]) THEN i + 4
       ELSE 0
  ELSE 0

\* The greedy \d{1,2} starting at position k.
TwoDigitsAt(t, k) ==
  IF k + 1 <= Len(t) /\ IsDigit(t[k + 1]) THEN Slice(t, k, k + 1) ELSE Slice(t, k, k)

RECURSIVE SkipSpaces(_, _)
SkipSpaces(t, k) ==
  IF k <= Len(t) /\ IsSpace(t[k]) THEN SkipSpaces(t, k + 1) ELSE k

\* Where /(\d{1,2})\s*月/ matches at position i of t: the number of month
\* digits matched (2 is tried first, then 1), or 0 when it does not match.
M2At(t, i) ==
  LET yueAt(k) == LET j == SkipSpaces(t, k) IN j <= Len(t) /\ t[j] = Yue
  IN  IF i > Len(t) \/ ~IsDigit(t[i]) THEN 0
      ELSE IF i + 1 <= Len(t) /\ IsDigit(t[i + 1]) /\ yueAt(i + 2) THEN 2
      ELSE IF yueAt(i + 1) THEN 1
      ELSE 0

Min(S) == CHOOSE x \in S : \A y \in S : x <= y

\* MonthPart without the zero padding.
MonthPartNoPad(digits) == NatToDigits(DigitsToNat(digits))

\* String(Number(digits)).padStart(2, "0")
MonthPart(digits) == PadStart2(NatToDigits(DigitsToNat(digits)))

\* normalizeMonth: the canonical YYYY-MM of a month text, or undefined.
normalizeMonth(s) ==
  IF s = Undef \/ s = <<>> THEN Undef
  ELSE
    LET t  == Trim(s)
        h1 == {i \in 1..Len(t) : M1At(t, i) # 0}
        h2 == {i \in 1..Len(t) : M2At(t, i) # 0}
    IN  IF h1 # {}
        THEN LET i == Min(h1)
             IN  Slice(t, i, i + 3) \o <<"-">> \o MonthPart(TwoDigitsAt(t, M1At(t, i)))
        ELSE IF h2 # {}
        THEN LET i == Min(h2)
             IN  CurrentYear \o <<"-">> \o MonthPart(Slice(t, i, i + M2At(t, i) - 1))
        ELSE Undef

\* s.split("-"): the parts between hyphens.
RECURSIVE SplitHyphen(_)
SplitHyphen(s) ==
  LET hy == {i \in 1..Len(s) : s[i] = "-"}
  IN  IF hy = {} THEN <<s>>
      ELSE LET i == Min(hy)
           IN  <<Slice(s, 1, i - 1)>> \o SplitHyphen(Slice(s, i + 1, Len(s)))

\* normMonth: the display-time re-pad of a row's month ('' when absent).
normMonth(m) ==
  IF m = Undef THEN <<>>
  ELSE
    LET s     == Trim(m)
        parts == SplitHyphen(s)
        y     == parts[1]
        raw   == IF Len(parts) >= 2 THEN parts[2] ELSE Undef
    IN  IF y = <<>> \/ raw = Undef \/ raw = <<>> THEN s
        ELSE y \o <<"-">> \o PadStart2(raw)

(* --------------------------- ingestion -------------------------------- *)

\* A raw record maps column names to texts.  The column names of the source
\* are written in ASCII: DaiLiShang = 代理商, DaiLi = 代理, ShangHu = 商戶,
\* KaiFenLiang = 開分量, KaiFen = 開分, YingYeE = 營業額, Bi = 營業額/開分量,
\* BiPct = 營業額/開分量百分比, RevenueOpen = Revenue/Open, YueFen = 月份,
\* YueCol = 月, RiQi = 日期.
Get(r, k) == IF k \in DOMAIN r THEN r[k] ELSE Undef

\* a ?? b ?? ... ?? dflt over the columns ks, in order.
RECURSIVE Coalesce(_, _, _)
Coalesce(r, ks, dflt) ==
  IF ks = <<>> THEN dflt
  ELSE IF Get(r, Head(ks)) # Undef THEN Get(r, Head(ks))
  ELSE Coalesce(r, Tail(ks), dflt)

AgentKeys == <<"DaiLiShang", "DaiLi", "Agent">>
StoreKeys == <<"ShangHu", "Store">>
OpenKeys == <<"KaiFenLiang", "KaiFen", "Open">>
RevKeys == <<"YingYeE", "Revenue", "Sales">>
RatioKeys == <<"Bi", "BiPct", "RevenueOpen", "ROI">>
MonthKeys == <<"YueFen", "YueCol", "Month", "RiQi", "Date">>

Hundred == <<100, 1>>

\* RatioOf without the revenue/open fallback.
RatioOfNoFallback(r, open, rev) ==
  LET raw == Coalesce(r, RatioKeys, <<>>)
  IN  IF raw = <<>> THEN Zero
      ELSE IF Includes(raw, <<"%">>) THEN RatDiv(num(raw), Hundred)
      ELSE num(raw)

\* The ratio of toRow: raw === "" ? (open>0 ? rev/open : 0)
\*                     : raw.includes("%") ? num(raw)/100 : num(raw)
RatioOf(r, open, rev) ==
  LET raw == Coalesce(r, RatioKeys, <<>>)
  IN  IF raw = <<>> THEN (IF RatLess(Zero, open) THEN RatDiv(rev, open) ELSE Zero)
      ELSE IF Includes(raw, <<"%">>) THEN RatDiv(num(raw), Hundred)
      ELSE num(raw)

\* toRow: the canonical Row of a raw record (the same converter is written
\* twice in the source, for the remote load and inside onFiles).
toRow(r, batchMonth) ==
  LET open == num(Coalesce(r, OpenKeys, Undef))
      rev  == num(Coalesce(r, RevKeys, Undef))
  IN  [ month |-> normalizeMonth(Coalesce(r, MonthKeys, batchMonth)),
        agent |-> Trim(Coalesce(r, AgentKeys, <<>>)),
        store |-> Trim(Coalesce(r, StoreKeys, <<>>)),
        open  |-> open,
        rev   |-> rev,
        ratio |-> RatioOf(r, open, rev) ]

\* The validity filter looking at the merchant only.
IsValidRowStoreOnly(x) == x.store # <<>>

\* .filter(x => x.代理商 && x.商戶)
IsValidRow(x) == x.agent # <<>> /\ x.store # <<>>

\* data.map(toRow).filter(...): the rows one parsed file or feed yields.
ParseRows(data, batchMonth) ==
  SelectSeq([i \in 1..Len(data) |-> toRow(data[i], batchMonth)], IsValidRow)

(* ------------------------------ views --------------------------------- *)

\* UTF-16 code order of the glyphs month texts are made of (Array.sort).
GlyphCode(c) ==
  CASE c = " " -> 32 [] c = "-" -> 45 [] IsDigit(c) -> 48 + DigitVal(c)
    [] c = "ding" -> 23450 [] c = "zhi" -> 25351 [] c = "wei" -> 26410
    [] OTHER -> 65

RECURSIVE TextLess(_, _)
TextLess(a, b) ==
  IF b = <<>> THEN FALSE
  ELSE IF a = <<>> THEN TRUE
  ELSE IF Head(a) # Head(b) THEN GlyphCode(Head(a)) < GlyphCode(Head(b))
  ELSE TextLess(Tail(a), Tail(b))

\* Array.from(new Set(xs)): first occurrences, in order.
RECURSIVE Uniq(_)
Uniq(xs) ==
  IF xs = <<>> THEN <<>>
  ELSE LET init == Uniq(Slice(xs, 1, Len(xs) - 1))
           x    == xs[Len(xs)]
       IN  IF \E i \in 1..Len(init) : init[i] = x THEN init ELSE Append(init, x)

\* xs.sort() for a duplicate-free list of texts.
RECURSIVE SortTexts(_)
SortTexts(xs) ==
  IF xs = <<>> THEN <<>>
  ELSE LET i == CHOOSE i \in 1..Len(xs) : \A j \in 1..Len(xs) : ~TextLess(xs[j], xs[i])
       IN  <<xs[i]>> \o SortTexts(Slice(xs, 1, i - 1) \o Slice(xs, i + 1, Len(xs)))

Elems(xs) == {xs[i] : i \in 1..Len(xs)}

\* allMonths: the distinct re-padded months of the dataset, ascending.
allMonthsOf(rs) == SortTexts(Uniq([i \in 1..Len(rs) |-> normMonth(rs[i].month)]))

\* monthSet: the distinct truthy months of the dataset, in dataset order.
monthSetOf(rs) ==
  Uniq(SelectSeq([i \in 1..Len(rs) |-> rs[i].month], LAMBDA m : m # Undef /\ m # <<>>))

IsTokenSep(c) == c = "," \/ IsSpace(c)

\* excludeAgent.split(/[,\s]+/).map(s => s.trim()).filter(Boolean)
RECURSIVE excludeTokensOf(_)
excludeTokensOf(s) ==
  IF s = <<>> THEN <<>>
  ELSE IF IsTokenSep(Head(s)) THEN excludeTokensOf(Tail(s))
  ELSE LET seps == {i \in 1..Len(s) : IsTokenSep(s[i])}
           e    == IF seps = {} THEN Len(s) + 1 ELSE Min(seps)
       IN  <<Slice(s, 1, e - 1)>> \o excludeTokensOf(Slice(s, e, Len(s)))

\* Exclusion by equality with a token instead of containment.
passExcludeExact(toks, r) ==
  Len(toks) = 0 \/ ~(\E i \in 1..Len(toks) : r.agent = toks[i])

\* passExclude: no token is contained in the row's agent.
passExcludeWith(toks, r) ==
  Len(toks) = 0 \/ ~(\E i \in 1..Len(toks) : Includes(r.agent, toks[i]))

ALL == <<"A", "L", "L">>

\* filtered: the rows shown in the table and fed to the charts.
filteredOf(rs, sel, ag, me, excl, qq) ==
  LET toks == excludeTokensOf(excl)
      d1 == IF Len(sel) # 0 /\ Len(sel) # Len(allMonthsOf(rs))
            THEN SelectSeq(rs, LAMBDA r : normMonth(r.month) \in Elems(sel))
            ELSE rs
      d2 == IF ag # ALL THEN SelectSeq(d1, LAMBDA r : r.agent = ag) ELSE d1
      d3 == IF me # ALL THEN SelectSeq(d2, LAMBDA r : r.store = me) ELSE d2
      d4 == IF Len(toks) # 0 THEN SelectSeq(d3, LAMBDA r : passExcludeWith(toks, r)) ELSE d3
      s  == ToLowerCase(Trim(qq))
  IN  IF Trim(qq) # <<>>
      THEN SelectSeq(d4, LAMBDA r : \/ Includes(ToLowerCase(r.agent), s)
                                    \/ Includes(ToLowerCase(r.store), s))
      ELSE d4

(* ------------------------------ charts -------------------------------- *)

\* The numbers of a row are kept as exact rationals; the program holds the
\* double nearest to each, and the charts add, divide and round those.
AsDoubles(r) == [r EXCEPT !.open = D(r.open), !.rev = D(r.rev), !.ratio = D(r.ratio)]

\* rows.forEach(r => m.set(key, (m.get(key) ?? 0) + value)) for one key:
\* the values of the rows with that key, added in row order.
RECURSIVE SumFor(_, _, _, _)
SumFor(rs, key, val, k) ==
  IF rs = <<>> THEN FZero
  ELSE LET Add(init, r) == IF r[key] = k THEN FAdd(init, r[val]) ELSE init
       IN  Add(SumFor(SubSeq(rs, 1, Len(rs) - 1), key, val, k), rs[Len(rs)])

\* Array.from(m, ...): one entry per key, in order of first appearance
\* (key and val name the fields of the rows that are grouped and added).
GroupSums(rs, key, val) ==
  LET Sums(keys) ==
        [i \in 1..Len(keys) |-> [name |-> keys[i], value |-> SumFor(rs, key, val, keys[i])]]
  IN  Sums(Uniq([i \in 1..Len(rs) |-> rs[i][key]]))

\* The list left in the order of the Map: no sort.
SortDescKeepOrder(xs) == xs

\* .sort((a,b) => b.value - a.value): descending, equal values keep their order.
RECURSIVE SortDesc(_)
SortDesc(xs) ==
  IF xs = <<>> THEN <<>>
  ELSE LET Rest(i) == <<xs[i]>> \o SortDesc(SubSeq(xs, 1, i - 1) \o SubSeq(xs, i + 1, Len(xs)))
       IN  Rest(CHOOSE i \in 1..Len(xs) :
                  /\ \A j \in 1..Len(xs) : ~FLess(xs[i].value, xs[j].value)
                  /\ \A j \in 1..(i - 1) : FLess(xs[j].value, xs[i].value))

\* list.reduce((s,d) => s + d.value, 0) over the first k entries.
RECURSIVE CumSum(_, _)
CumSum(xs, k) == IF k = 0 THEN FZero ELSE FAdd(CumSum(xs, k - 1), xs[k].value)

\* Each merchant with its own share of the total, not the running one.
useParetoByMerchantOwnShare(rs) ==
  LET Shares(list, total) ==
        [k \in 1..Len(list) |->
           [name |-> list[k].name, value |-> list[k].value,
            cum |-> ToFixed(FMul(FDiv(list[k].value, total), FromInt(100)), 2)]]
      OrOne(sum) == IF sum = FZero THEN FromInt(1) ELSE sum
      Sorted(list) == Shares(list, OrOne(CumSum(list, Len(list))))
  IN  Sorted(SortDesc(GroupSums(rs, "store", "open")))

\* useParetoByMerchant: merchants by summed open amount, descending, each
\* with its cumulative share of the total in percent, rounded to 2 decimals.
useParetoByMerchant(rs) ==
  LET Shares(list, total) ==
        [k \in 1..Len(list) |->
           [name |-> list[k].name, value |-> list[k].value,
            cum |-> ToFixed(FMul(FDiv(CumSum(list, k), total), FromInt(100)), 2)]]
      \* const total = list.reduce(...) || 1
      OrOne(sum) == IF sum = FZero THEN FromInt(1) ELSE sum
      Sorted(list) == Shares(list, OrOne(CumSum(list, Len(list))))
  IN  Sorted(SortDesc(GroupSums(rs, "store", "open")))

\* useRevenueShareByAgent: agents by summed revenue, descending.
useRevenueShareByAgent(rs) == SortDesc(GroupSums(rs, "agent", "rev"))

Reverse(xs) == [i \in 1..Len(xs) |-> xs[Len(xs) + 1 - i]]

\* useTopOpenByMerchant without the final reverse(): largest first.
useTopOpenByMerchantLargestFirst(rs, n) ==
  LET Largest(list) == SubSeq(list, 1, IF n < Len(list) THEN n ELSE Len(list))
  IN  Largest(SortDesc(GroupSums(rs, "store", "open")))

\* useTopOpenByMerchant: the n merchants with the largest summed open
\* amount, smallest first.
useTopOpenByMerchant(rs, n) ==
  LET Largest(list) == Reverse(SubSeq(list, 1, IF n < Len(list) THEN n ELSE Len(list)))
  IN  Largest(SortDesc(GroupSums(rs, "store", "open")))

\* The histogram step of the page, 0.05, and the 1e-12 of the bin index.
Step == FromRat(0, <<1>>, <<20>>)
Epsilon == FromRat(0, <<1>>, BPow10(12))

\* Math.min(...ratios) / Math.max(...ratios): the least / greatest of m and
\* the ratios of rs[i..].
RECURSIVE MinRatio(_, _, _)
MinRatio(rs, i, m) ==
  IF i > Len(rs) THEN m
  ELSE IF FLess(rs[i].ratio, m) THEN MinRatio(rs, i + 1, rs[i].ratio)
  ELSE MinRatio(rs, i + 1, m)

RECURSIVE MaxRatio(_, _, _)
MaxRatio(rs, i, m) ==
  IF i > Len(rs) THEN m
  ELSE IF FLess(m, rs[i].ratio) THEN MaxRatio(rs, i + 1, rs[i].ratio)
  ELSE MaxRatio(rs, i + 1, m)

\* for (let a = lo; a < hi; a += step) bins.push({_a: a, _b: +(a+step).toFixed(10)})
RECURSIVE BinsFrom(_, _)
BinsFrom(a, hi) ==
  LET Bin(next) == <<[a |-> a, b |-> ToFixed(next, 10)]>> \o BinsFrom(next, hi)
  IN  IF FLess(a, hi) THEN Bin(FAdd(a, Step)) ELSE <<>>

\* useRatioHistogram(rows, 0.05): the bins, and for every row the index
\* computed for it (raw) and the bin it is counted in (idx, 0-based).
\* The ratios of rows are finite, so min and max are.
useRatioHistogram(rs) ==
  LET \* const toStep = (x, f) => f(x / step) * step
      toStep(q, up) == FMul(FromInt(IF up THEN CeilInt(q) ELSE FloorInt(q)), Step)
      \* Math.floor((Math.min(ratio, hi - 1e-12) - lo) / step)
      Index(x, lo) == FloorInt(FDiv(FSub(x, lo), Step))
      \* Math.max(0, Math.min(bins.length - 1, index))
      Capped(i, n) == IF i > n - 1 THEN (IF n - 1 > 0 THEN n - 1 ELSE 0) ELSE IF i > 0 THEN i ELSE 0
      Counted(lo, hi, bins, raw) ==
        [lo |-> lo, hi |-> hi, bins |-> bins, raw |-> raw,
         idx |-> [i \in 1..Len(rs) |-> Capped(raw[i], Len(bins))]]
      Binned(lo, hi, top) ==
        Counted(lo, hi, BinsFrom(lo, hi),
                [i \in 1..Len(rs) |->
                   Index(IF FLess(top, rs[i].ratio) THEN top ELSE rs[i].ratio, lo)])
      Ranged(lo, hi) == Binned(lo, hi, FSub(hi, Epsilon))
  IN  IF Len(rs) = 0 THEN [lo |-> FZero, hi |-> FZero, bins |-> <<>>, raw |-> <<>>, idx |-> <<>>]
      ELSE Ranged(toStep(FDiv(FSub(MinRatio(rs, 2, rs[1].ratio), Step), Step), FALSE),
                  toStep(FDiv(FAdd(MaxRatio(rs, 2, rs[1].ratio), Step), Step), TRUE))

\* bins[idx].count after rows.forEach: how many rows were counted in bin k (0-based).
BinCount(h, k) == Cardinality({i \in 1..Len(h.idx) : h.idx[i] = k})

(* ------------------------- period comparison -------------------------- *)

\* const keyFn = (r) => keyJoin === "store" ? r.store : `${r.agent}__${r.store}`
keyFn(kj, r) == IF kj = "store" THEN r.store ELSE r.agent \o <<"_", "_">> \o r.store

\* A.forEach(r => map.set(keyFn(r), r)); map.get(k): the last row of rs
\* with key k as a one-element list, the empty list (undefined) when
\* there is none.
mapGet(rs, kj, k) ==
  LET at == {i \in 1..Len(rs) : keyFn(kj, rs[i]) = k}
  IN  IF at = {} THEN <<>> ELSE <<rs[CHOOSE i \in at : \A j \in at : j <= i]>>

\* [...map.keys()]: the keys of rs in the order of their first row.
mapKeys(rs, kj) == Uniq([i \in 1..Len(rs) |-> keyFn(kj, rs[i])])

\* The comparison row with the missing side taken from the present one.
compareRowOfCopied(a, b) ==
  LET Of(x, y, f) == IF x # <<>> THEN x[1][f] ELSE IF y # <<>> THEN y[1][f] ELSE Zero
  IN  [agent |-> Of(a, b, "agent"), store |-> Of(a, b, "store"),
       openA |-> Of(a, b, "open"), openB |-> Of(b, a, "open"),
       dOpen |-> RatSub(Of(b, a, "open"), Of(a, b, "open")),
       revA |-> Of(a, b, "rev"), revB |-> Of(b, a, "rev"),
       dRev |-> RatSub(Of(b, a, "rev"), Of(a, b, "rev")),
       ratioA |-> Of(a, b, "ratio"), ratioB |-> Of(b, a, "ratio"),
       dRatio |-> RatSub(Of(b, a, "ratio"), Of(a, b, "ratio"))]

\* The comparison with the deltas taken as A - B.
compareRowOfAMinusB(a, b) ==
  LET Of(x, f) == IF x = <<>> THEN Zero ELSE x[1][f]
      Label(f) == IF a # <<>> THEN a[1][f] ELSE IF b # <<>> THEN b[1][f] ELSE <<>>
  IN  [agent |-> Label("agent"), store |-> Label("store"),
       openA |-> Of(a, "open"), openB |-> Of(b, "open"),
       dOpen |-> RatSub(Of(a, "open"), Of(b, "open")),
       revA |-> Of(a, "rev"), revB |-> Of(b, "rev"),
       dRev |-> RatSub(Of(a, "rev"), Of(b, "rev")),
       ratioA |-> Of(a, "ratio"), ratioB |-> Of(b, "ratio"),
       dRatio |-> RatSub(Of(a, "ratio"), Of(b, "ratio"))]

\* out.push({...}): the comparison row of the rows a and b of one key
\* (either may be absent): a?.x ?? b?.x ?? "" for the labels, ?? 0 for
\* the numbers, deltas B - A.
compareRowOf(a, b) ==
  LET Of(x, f) == IF x = <<>> THEN Zero ELSE x[1][f]
      Label(f) == IF a # <<>> THEN a[1][f] ELSE IF b # <<>> THEN b[1][f] ELSE <<>>
  IN  [agent |-> Label("agent"), store |-> Label("store"),
       openA |-> Of(a, "open"), openB |-> Of(b, "open"),
       dOpen |-> RatSub(Of(b, "open"), Of(a, "open")),
       revA |-> Of(a, "rev"), revB |-> Of(b, "rev"),
       dRev |-> RatSub(Of(b, "rev"), Of(a, "rev")),
       ratioA |-> Of(a, "ratio"), ratioB |-> Of(b, "ratio"),
       dRatio |-> RatSub(Of(b, "ratio"), Of(a, "ratio"))]

\* out.sort((a, b) => b.dRev - a.dRev): descending by revenue delta, stable.
RECURSIVE sortByDelta(_)
sortByDelta(xs) ==
  IF xs = <<>> THEN <<>>
  ELSE LET Rest(i) == <<xs[i]>> \o sortByDelta(Slice(xs, 1, i - 1) \o Slice(xs, i + 1, Len(xs)))
       IN  Rest(CHOOSE i \in 1..Len(xs) :
                  /\ \A j \in 1..Len(xs) : ~RatLess(xs[i].dRev, xs[j].dRev)
                  /\ \A j \in 1..(i - 1) : RatLess(xs[j].dRev, xs[i].dRev))

\* compareRows without its first line: the periods are joined even when
\* one of them is not selected.
compareRowsOfUnguarded(base, mA, mB, kj) ==
  LET Joined(A, B, keys) ==
        sortByDelta([i \in 1..Len(keys) |-> compareRowOf(mapGet(A, kj, keys[i]), mapGet(B, kj, keys[i]))])
      Split(A, B) == Joined(A, B, Uniq(mapKeys(A, kj) \o mapKeys(B, kj)))
  IN  Split(SelectSeq(base, LAMBDA r : r.month = mA), SelectSeq(base, LAMBDA r : r.month = mB))

\* compareRows: the outer join of the rows of month mA and of month mB.
compareRowsOf(base, mA, mB, kj) ==
  LET Joined(A, B, keys) ==
        sortByDelta([i \in 1..Len(keys) |-> compareRowOf(mapGet(A, kj, keys[i]), mapGet(B, kj, keys[i]))])
      Split(A, B) == Joined(A, B, Uniq(mapKeys(A, kj) \o mapKeys(B, kj)))
  IN  IF mA = Undef \/ mA = <<>> \/ mB = Undef \/ mB = <<>> THEN <<>>
      ELSE Split(SelectSeq(base, LAMBDA r : r.month = mA), SelectSeq(base, LAMBDA r : r.month = mB))

(* ------------------------------ inputs -------------------------------- *)

T_2025(m1, m2) == <<"2", "0", "2", "5", "-", m1, m2>>

JinJieKe == <<"jin", "jie", "ke">>
AFeng == <<"ah", "feng">>
GuoZheng == <<"guo", "zheng">>

\* seed: the demo dataset (amounts in thousands).
seed ==
  << [month |-> T_2025("0", "7"), agent |-> JinJieKe, store |-> <<"wan", "hao">>,
      open |-> <<1200, 1>>, rev |-> <<300, 1>>, ratio |-> Rat(300, 1200)],
     [month |-> T_2025("0", "7"), agent |-> JinJieKe, store |-> <<"xin", "ji", "xing">>,
      open |-> <<900, 1>>, rev |-> <<210, 1>>, ratio |-> Rat(210, 900)],
     [month |-> T_2025("0", "8"), agent |-> AFeng, store |-> <<"qian", "yi">>,
      open |-> <<500, 1>>, rev |-> <<150, 1>>, ratio |-> Rat(150, 500)],
     [month |-> T_2025("0", "8"), agent |-> AFeng, store |-> <<"bu", "la", "de">>,
      open |-> <<380, 1>>, rev |-> <<98, 1>>, ratio |-> Rat(98, 380)],
     [month |-> T_2025("0", "8"), agent |-> GuoZheng, store |-> <<"huang", "shi">>,
      open |-> <<350, 1>>, rev |-> <<70, 1>>, ratio |-> Rat(70, 350)] >>

\* Raw records the uploaded files and the remote feed are made of.
RawPlain ==
  [Agent |-> <<"A", "b">>, Store |-> <<"M", "x">>,
   Open |-> <<"1", "0", "0">>, Revenue |-> <<"3", "0">>]
RawBlankAgent ==
  [Agent |-> <<" ">>, Store |-> <<"M", "k">>, Open |-> <<"5">>, Revenue |-> <<"1">>]
RawSep ==
  [DaiLiShang |-> JinJieKe, ShangHu |-> <<"wan", "hao">>,
   KaiFenLiang |-> <<"1", ",", "0", "0", "0">>, YingYeE |-> <<"2", "0", "0">>,
   YueFen |-> <<"2", "0", "2", "5", "/", "9">>]
RawOct ==
  [Agent |-> <<"G", "b">>, Store |-> <<"M", "x">>, Open |-> <<"0">>,
   Sales |-> <<"5">>, Month |-> T_2025("1", "0"), ROI |-> <<"3", "0", "%">>]
RawBadMonth ==
  [Agent |-> AFeng, Store |-> <<"qian", "yi">>, Open |-> <<"4", "0">>,
   Revenue |-> <<"1", "0">>, YueFen |-> <<"x">>]

\* The files a user can pick: a name, the records its parser yields, and
\* whether the workbook is unreadable (XLSX.read throws).
FilePool ==
  { [name |-> <<"2", "0", "2", "5", "-", "0", "9", ".", "c", "s", "v">>,
     data |-> <<RawPlain, RawBlankAgent>>, bad |-> FALSE],
    [name |-> <<"d", ".", "c", "s", "v">>,
     data |-> <<RawSep, RawOct>>, bad |-> FALSE],
    [name |-> <<"e", ".", "x", "l", "s", "x">>,
     data |-> <<RawBlankAgent>>, bad |-> FALSE],
    [name |-> <<"1", "1", Yue, ".", "x", "l", "s">>,
     data |-> <<RawBadMonth>>, bad |-> FALSE],
    [name |-> <<"z", ".", "x", "l", "s">>, data |-> <<>>, bad |-> TRUE] }

\* What the remote source can answer.
RemotePool ==
  { <<RawSep, RawOct>>, <<RawPlain>>, <<RawBlankAgent>>, <<RawOct, RawBadMonth, RawSep>> }

\* Texts typed into the batch-month, exclusion and search inputs.
BatchMonthPool ==
  { <<>>, <<"2", "0", "2", "5", Nian, "1", "1", Yue>>, <<"x">> }
ExcludePool ==
  { <<>>, <<"jin">>, <<"g", ",", " ", "A", " ">>, <<" ", "ah", "feng", ",", "b">> }
SearchPool ==
  { <<>>, <<" ", "M", "X">>, <<"jie">> }

\* Bounds of the exploration.
MaxFiles == 2
MaxPending == 2
MaxCtl == 1

\* All non-empty lists of at most n elements of S.
RECURSIVE SeqsUpTo(_, _)
SeqsUpTo(S, n) ==
  IF n = 0 THEN {}
  ELSE LET shorter == SeqsUpTo(S, n - 1)
       IN  {<<x>> : x \in S} \cup shorter \cup {Append(q, x) : q \in shorter, x \in S}

(* ------------------------------ state --------------------------------- *)

VARIABLES
  rows,            \* useState<Row[]>(seed)
  selectedMonths,  \* the months ticked in the detail table
  agent, merchant, \* the two select filters
  excludeAgent,    \* the exclusion input
  q,               \* the search input
  appendMode,      \* append (TRUE) or replace (FALSE)
  batchMonth,      \* the batch month input
  keyJoin,         \* "agent+store" or "store"
  monthA, monthB,  \* the comparison selectors
  uploads,         \* the onFiles invocations still awaiting a parse
  remote,          \* the remote load: "none", "pending" or "done"
  filesLeft, ctlLeft, \* how many more files / control changes the session explores
  probe            \* the input and output of a function applied on its own

vars == <<rows, selectedMonths, agent, merchant, excludeAgent, q, appendMode,
          batchMonth, keyJoin, monthA, monthB, uploads, remote, filesLeft, ctlLeft, probe>>

allMonths == allMonthsOf(rows)
monthSet == monthSetOf(rows)
excludeTokens == excludeTokensOf(excludeAgent)
passExclude(r) == passExcludeWith(excludeTokens, r)
filtered == filteredOf(rows, selectedMonths, agent, merchant, excludeAgent, q)
agents == Uniq([i \in 1..Len(rows) |-> rows[i].agent])
merchants ==
  LET base == IF agent = ALL THEN rows ELSE SelectSeq(rows, LAMBDA r : r.agent = agent)
  IN  Uniq([i \in 1..Len(base) |-> base[i].store])

\* The comparison fed with the rows of the detail table.
baseRowsForCompareOfFiltered(rs, sel, ag, me, excl, qq) == filteredOf(rs, sel, ag, me, excl, qq)

\* baseRowsForCompare = rows.filter(passExclude): the dataset minus the
\* excluded agents. The whole state of the page is in the scope of the
\* memo; it reads the rows and the exclusion input only.
baseRowsForCompareOf(rs, sel, ag, me, excl, qq) ==
  SelectSeq(rs, LAMBDA r : passExcludeWith(excludeTokensOf(excl), r))

baseRowsForCompare == baseRowsForCompareOf(rows, selectedMonths, agent, merchant, excludeAgent, q)
compareRows == compareRowsOf(baseRowsForCompare, monthA, monthB, keyJoin)

\* kpi: the totals of the filtered rows.
kpiOf(rs) ==
  LET RECURSIVE Total(_, _)
      Total(f, i) == IF i = 0 THEN Zero ELSE RatAdd(Total(f, i - 1), rs[i][f])
  IN  [open |-> Total("open", Len(rs)), rev |-> Total("rev", Len(rs)),
       ratio |-> IF Len(rs) # 0 THEN RatDiv(Total("ratio", Len(rs)), <<Len(rs), 1>>) ELSE Zero]
kpi == kpiOf(filtered)

\* The effect on [allMonths, selectedMonths.length]: an empty selection
\* becomes "all months" as soon as the dataset has months.
SelectionEffect(rs, sel) ==
  IF Len(allMonthsOf(rs)) # 0 /\ Len(sel) = 0 THEN allMonthsOf(rs) ELSE sel

OrElse(xs, i, dflt) == IF i <= Len(xs) THEN xs[i] ELSE dflt

NoProbe == [fn |-> "none"]

Init ==
  /\ rows = seed
  /\ selectedMonths = SelectionEffect(seed, <<>>)
  /\ agent = ALL /\ merchant = ALL
  /\ excludeAgent = <<>> /\ q = <<>>
  /\ appendMode = TRUE
  /\ batchMonth = <<>>
  /\ keyJoin = "agent+store"
  /\ monthA = OrElse(monthSetOf(seed), 1, Undef)
  /\ monthB = OrElse(monthSetOf(seed), 2, OrElse(monthSetOf(seed), 1, Undef))
  /\ uploads = <<>>
  /\ remote \in {"none", "pending"}
  /\ filesLeft = MaxFiles /\ ctlLeft = MaxCtl
  /\ probe = NoProbe

(* ------------------------------ upload -------------------------------- *)

\* if (!batchMonth) { fromName = normalizeMonth(f.name);
\*                    if (fromName) setBatchMonth(v => v || fromName) }
\* closure is the batchMonth the handler was created with, cur the state.
NameEffect(closure, name, cur) ==
  IF closure = <<>> /\ normalizeMonth(name) # Undef /\ cur = <<>>
  THEN normalizeMonth(name)
  ELSE cur

\* merged without the batch month: an unresolved month becomes the sentinel.
mergedOfNoBatch(got, bm) ==
  [i \in 1..Len(got) |->
     [got[i] EXCEPT !.month = IF got[i].month # Undef THEN got[i].month ELSE Unspecified]]

\* merged: the parsed rows with 月份: r.月份 ?? normalizeMonth(batchMonth) ?? "未指定"
mergedOf(got, bm) ==
  [i \in 1..Len(got) |->
     [got[i] EXCEPT !.month =
        IF got[i].month # Undef THEN got[i].month
        ELSE IF normalizeMonth(bm) # Undef THEN normalizeMonth(bm)
        ELSE Unspecified]]

\* Append that puts the incoming rows first.
mergeRowsPrepend(prev, merged, append) == IF append THEN merged \o prev ELSE merged

\* setRows(merged) in either mode: the rows merged before are lost.
mergeRowsOverwrite(prev, merged, append) == merged

\* if (appendMode) setRows(prev => [...prev, ...merged]); else setRows(merged)
mergeRows(prev, merged, append) == IF append THEN prev \o merged ELSE merged

RemoveAt(xs, k) == Slice(xs, 1, k - 1) \o Slice(xs, k + 1, Len(xs))

\* onFiles up to its first await: the handler captures batchMonth and
\* appendMode, looks at the first file's name and starts parsing it.
onFilesStart(fs) ==
  /\ Len(fs) <= filesLeft
  /\ Len(uploads) < MaxPending
  /\ uploads' = Append(uploads, [files |-> fs, idx |-> 1, got |-> <<>>,
                                 bm |-> batchMonth, am |-> appendMode])
  /\ batchMonth' = NameEffect(batchMonth, fs[1].name, batchMonth)
  /\ filesLeft' = filesLeft - Len(fs)
  /\ UNCHANGED <<rows, selectedMonths, agent, merchant, excludeAgent, q, appendMode,
                 keyJoin, monthA, monthB, remote, ctlLeft, probe>>

\* The parse of the current file of upload k throws: onFiles ends there.
onFilesThrow(k) ==
  /\ k \in 1..Len(uploads)
  /\ uploads[k].files[uploads[k].idx].bad
  /\ uploads' = RemoveAt(uploads, k)
  /\ UNCHANGED <<rows, selectedMonths, agent, merchant, excludeAgent, q, appendMode,
                 batchMonth, keyJoin, monthA, monthB, remote, filesLeft, ctlLeft, probe>>

\* The parse of the current file of upload k resolves and more files follow.
onFilesNext(k) ==
  /\ k \in 1..Len(uploads)
  /\ LET u == uploads[k]
         f == u.files[u.idx]
     IN  /\ ~f.bad
         /\ u.idx < Len(u.files)
         /\ uploads' = [uploads EXCEPT ![k] =
                          [u EXCEPT !.idx = u.idx + 1,
                                    !.got = u.got \o ParseRows(f.data, u.bm)]]
         /\ batchMonth' = NameEffect(u.bm, u.files[u.idx + 1].name, batchMonth)
  /\ UNCHANGED <<rows, selectedMonths, agent, merchant, excludeAgent, q, appendMode,
                 keyJoin, monthA, monthB, remote, filesLeft, ctlLeft, probe>>

\* The parse of the last file of upload k resolves: merge, publish, and
\* point the comparison selectors at the batch's months.
onFilesFinish(k) ==
  /\ k \in 1..Len(uploads)
  /\ LET u == uploads[k]
         f == u.files[u.idx]
         merged == mergedOf(u.got \o ParseRows(f.data, u.bm), u.bm)
         months == monthSetOf(merged)
     IN  /\ ~f.bad
         /\ u.idx = Len(u.files)
         /\ rows' = mergeRows(rows, merged, u.am)
         /\ monthA' = IF Len(months) # 0 THEN months[1] ELSE monthA
         /\ monthB' = IF Len(months) # 0 THEN OrElse(months, 2, months[1]) ELSE monthB
         /\ selectedMonths' = SelectionEffect(rows', selectedMonths)
  /\ uploads' = RemoveAt(uploads, k)
  /\ UNCHANGED <<agent, merchant, excludeAgent, q, appendMode, batchMonth, keyJoin,
                 remote, filesLeft, ctlLeft, probe>>

(* ---------------------------- remote load ----------------------------- *)

\* The remote load without its length test: setRows(loaded) even when no
\* loaded row is valid.
remoteLoadedUnguarded(data) ==
  /\ remote = "pending"
  /\ remote' = "done"
  /\ rows' = ParseRows(data, <<>>)
  /\ selectedMonths' = SelectionEffect(rows', selectedMonths)
  /\ UNCHANGED <<agent, merchant, excludeAgent, q, appendMode, batchMonth, keyJoin,
                 monthA, monthB, uploads, filesLeft, ctlLeft, probe>>

\* loadFromCsvUrl / loadFromJsonUrl, then: if (loaded.length) setRows(loaded)
remoteLoaded(data) ==
  /\ remote = "pending"
  /\ remote' = "done"
  /\ LET loaded == ParseRows(data, <<>>)
     IN  rows' = IF Len(loaded) # 0 THEN loaded ELSE rows
  /\ selectedMonths' = SelectionEffect(rows', selectedMonths)
  /\ UNCHANGED <<agent, merchant, excludeAgent, q, appendMode, batchMonth, keyJoin,
                 monthA, monthB, uploads, filesLeft, ctlLeft, probe>>

\* fetch or parse raises: the catch logs and nothing changes.
remoteFailed ==
  /\ remote = "pending"
  /\ remote' = "done"
  /\ UNCHANGED <<rows, selectedMonths, agent, merchant, excludeAgent, q, appendMode,
                 batchMonth, keyJoin, monthA, monthB, uploads, filesLeft, ctlLeft, probe>>

(* ------------------------------ controls ------------------------------ *)

\* Every control change uses up one of the changes the session explores.
Ctl == ctlLeft > 0 /\ ctlLeft' = ctlLeft - 1

\* The "clear data" button.
clearData ==
  /\ Ctl
  /\ rows' = <<>>
  /\ monthA' = Undef /\ monthB' = Undef
  /\ selectedMonths' = SelectionEffect(rows', selectedMonths)
  /\ UNCHANGED <<agent, merchant, excludeAgent, q, appendMode, batchMonth, keyJoin,
                 uploads, remote, filesLeft, probe>>

setBatchMonth(t) ==
  /\ Ctl
  /\ batchMonth' = t
  /\ UNCHANGED <<rows, selectedMonths, agent, merchant, excludeAgent, q, appendMode,
                 keyJoin, monthA, monthB, uploads, remote, filesLeft, probe>>

setAppendMode(b) ==
  /\ Ctl
  /\ appendMode' = b
  /\ UNCHANGED <<rows, selectedMonths, agent, merchant, excludeAgent, q, batchMonth,
                 keyJoin, monthA, monthB, uploads, remote, filesLeft, probe>>

\* The agent select: also resets the merchant select.
setAgent(a) ==
  /\ Ctl
  /\ agent' = a /\ merchant' = ALL
  /\ UNCHANGED <<rows, selectedMonths, excludeAgent, q, appendMode, batchMonth,
                 keyJoin, monthA, monthB, uploads, remote, filesLeft, probe>>

setMerchant(m) ==
  /\ Ctl
  /\ merchant' = m
  /\ UNCHANGED <<rows, selectedMonths, agent, excludeAgent, q, appendMode, batchMonth,
                 keyJoin, monthA, monthB, uploads, remote, filesLeft, probe>>

setExcludeAgent(t) ==
  /\ Ctl
  /\ excludeAgent' = t
  /\ UNCHANGED <<rows, selectedMonths, agent, merchant, q, appendMode, batchMonth,
                 keyJoin, monthA, monthB, uploads, remote, filesLeft, probe>>

setQ(t) ==
  /\ Ctl
  /\ q' = t
  /\ UNCHANGED <<rows, selectedMonths, agent, merchant, excludeAgent, appendMode,
                 batchMonth, keyJoin, monthA, monthB, uploads, remote, filesLeft, probe>>

setKeyJoin(kj) ==
  /\ Ctl
  /\ keyJoin' = kj
  /\ UNCHANGED <<rows, selectedMonths, agent, merchant, excludeAgent, q, appendMode,
                 batchMonth, monthA, monthB, uploads, remote, filesLeft, probe>>

\* The comparison selects: "" (no period) is stored as undefined.
setMonthA(m) ==
  /\ Ctl
  /\ monthA' = m
  /\ UNCHANGED <<rows, selectedMonths, agent, merchant, excludeAgent, q, appendMode,
                 batchMonth, keyJoin, monthB, uploads, remote, filesLeft, probe>>

setMonthB(m) ==
  /\ Ctl
  /\ monthB' = m
  /\ UNCHANGED <<rows, selectedMonths, agent, merchant, excludeAgent, q, appendMode,
                 batchMonth, keyJoin, monthA, uploads, remote, filesLeft, probe>>

\* setSelectedMonths(sel), followed by the selection effect.
Select(sel) ==
  /\ Ctl
  /\ selectedMonths' = SelectionEffect(rows, sel)
  /\ UNCHANGED <<rows, agent, merchant, excludeAgent, q, appendMode, batchMonth,
                 keyJoin, monthA, monthB, uploads, remote, filesLeft, probe>>

pickAll == Select(allMonths)

clearAll == Select(<<>>)

\* allMonths.slice(-n)
quickPick(n) ==
  Select(Slice(allMonths, IF Len(allMonths) > n THEN Len(allMonths) - n + 1 ELSE 1,
               Len(allMonths)))

\* A month button: plain click selects only m, Ctrl/Cmd-click toggles m.
clickMonth(m, ctrl) ==
  Select(IF ~ctrl THEN <<m>>
         ELSE IF m \in Elems(selectedMonths)
              THEN SelectSeq(selectedMonths, LAMBDA x : x # m)
              ELSE SortTexts(Append(selectedMonths, m)))

Next ==
  \/ \E fs \in SeqsUpTo(FilePool, filesLeft) : onFilesStart(fs)
  \/ \E k \in 1..Len(uploads) : onFilesThrow(k)
  \/ \E k \in 1..Len(uploads) : onFilesNext(k)
  \/ \E k \in 1..Len(uploads) : onFilesFinish(k)
  \/ \E data \in RemotePool : remoteLoaded(data)
  \/ remoteFailed
  \/ clearData
  \/ \E t \in BatchMonthPool : setBatchMonth(t)
  \/ \E b \in BOOLEAN : setAppendMode(b)
  \/ \E a \in {ALL} \cup Elems(agents) : setAgent(a)
  \/ \E m \in {ALL} \cup Elems(merchants) : setMerchant(m)
  \/ \E t \in ExcludePool : setExcludeAgent(t)
  \/ \E t \in SearchPool : setQ(t)
  \/ \E kj \in {"agent+store", "store"} : setKeyJoin(kj)
  \/ \E m \in {Undef} \cup Elems(monthSet) : setMonthA(m)
  \/ \E m \in {Undef} \cup Elems(monthSet) : setMonthB(m)
  \/ pickAll
  \/ clearAll
  \/ \E n \in {1, 3} : quickPick(n)
  \/ \E m \in Elems(allMonths), ctrl \in BOOLEAN : clickMonth(m, ctrl)

\* Sessions with uploads and few control changes.
Spec == Init /\ [][Next]_vars

(* ---------------- the converters applied on their own ----------------- *)

\* The session of a probe specification: the page as constructed, with no
\* remote source, no uploads and no control changes.
InitIdle(p) ==
  /\ rows = seed
  /\ selectedMonths = SelectionEffect(seed, <<>>)
  /\ agent = ALL /\ merchant = ALL
  /\ excludeAgent = <<>> /\ q = <<>>
  /\ appendMode = TRUE
  /\ batchMonth = <<>>
  /\ keyJoin = "agent+store"
  /\ monthA = OrElse(monthSetOf(seed), 1, Undef)
  /\ monthB = OrElse(monthSetOf(seed), 2, OrElse(monthSetOf(seed), 1, Undef))
  /\ uploads = <<>>
  /\ remote = "none"
  /\ filesLeft = 0 /\ ctlLeft = 0
  /\ probe = p

app == <<rows, selectedMonths, agent, merchant, excludeAgent, q, appendMode,
         batchMonth, keyJoin, monthA, monthB, uploads, remote, filesLeft, ctlLeft>>

\* Raw records for toRow: every combination of these column values
\* (undefined is an absent column, <<>> an empty cell).
ProbeRecords ==
  [ Agent       : {<<"A", "b">>, <<" ">>},
    Store       : {<<"M", "x">>, Undef},
    KaiFenLiang : {Undef, <<"1", ",", "2", "0", "0">>, <<"0">>, <<"x">>, <<"-", "5">>,
                   <<"2", ".", "5">>},
    Open        : {Undef, <<"8">>},
    YingYeE     : {Undef, <<"3", "0", "0">>, <<" ", ".", "5">>},
    Bi          : {Undef, <<>>, <<"0", ".", "3">>, <<"2", "5", "%">>, <<" ">>, <<"x">>},
    ROI         : {Undef, <<>>, <<"3", "0", "%">>} ]

NoRow ==
  [month |-> Undef, agent |-> <<>>, store |-> <<>>, open |-> Zero, rev |-> Zero,
   ratio |-> Zero]

InitToRow ==
  \E r \in ProbeRecords :
    InitIdle([fn |-> "toRow", raw |-> r, done |-> FALSE, out |-> NoRow])

\* toRow(raw, "")
applyToRow ==
  /\ probe.fn = "toRow" /\ ~probe.done
  /\ probe' = [probe EXCEPT !.done = TRUE, !.out = toRow(probe.raw, <<>>)]
  /\ UNCHANGED app

SpecToRow == InitToRow /\ [][applyToRow]_vars

\* Month texts for the two normalizers: canonical tokens of several
\* centuries, the spellings normalizeMonth accepts, and texts it rejects.
ProbeYears ==
  { <<"1", "9", "9", "9">>, <<"2", "0", "0", "0">>, <<"2", "0", "2", "5">>,
    <<"2", "0", "9", "9">>, <<"2", "1", "0", "0">> }
ProbeMonths ==
  { <<"0", "7">>, <<"1", "2">>, <<"0", "0">>, <<"1", "3">>, <<"7">>, <<"7", Yue>>,
    <<"0", "7", "-", "1", "5">> }
ProbeSeps == { <<"-">>, <<"/">>, <<".">>, <<Nian>>, <<>>, <<"-", " ">> }
ProbeTexts ==
  {y \o sp \o m : y \in ProbeYears, sp \in ProbeSeps, m \in ProbeMonths}
    \cup { Undef, <<>>, Unspecified, <<"x">>, <<"7", Yue>>, <<"1", "2", " ", Yue>>,
           <<"1", "2", "3", Yue>>, <<" ", "2", "0", "2", "5", "-", "0", "7", " ">>,
           <<"r", "2", "0", "2", "5", "-", "0", "9", ".", "c", "s", "v">>,
           <<"2", "0", "2", "5", "-">>, <<"-", "7">>,
           <<"2", "0", "2", "5", "-", " ", "-", "x">>,
           <<"2", "0", "2", "5", "-", "7", " ", "-", "x">> }

\* A result not computed yet.
Unset == <<"unset">>

InitMonth ==
  \E t \in ProbeTexts :
    InitIdle([fn |-> "month", text |-> t, nz |-> Unset, nz2 |-> Unset,
              nm |-> Unset, nm2 |-> Unset])

\* normalizeMonth(text)
applyNormalizeMonth ==
  /\ probe.fn = "month" /\ probe.nz = Unset
  /\ probe' = [probe EXCEPT !.nz = normalizeMonth(probe.text)]
  /\ UNCHANGED app

\* normalizeMonth(normalizeMonth(text))
applyNormalizeMonthAgain ==
  /\ probe.fn = "month" /\ probe.nz # Unset /\ probe.nz2 = Unset
  /\ probe' = [probe EXCEPT !.nz2 = normalizeMonth(probe.nz)]
  /\ UNCHANGED app

\* normMonth(text)
applyNormMonth ==
  /\ probe.fn = "month" /\ probe.nm = Unset
  /\ probe' = [probe EXCEPT !.nm = normMonth(probe.text)]
  /\ UNCHANGED app

\* normMonth(normMonth(text))
applyNormMonthAgain ==
  /\ probe.fn = "month" /\ probe.nm # Unset /\ probe.nm2 = Unset
  /\ probe' = [probe EXCEPT !.nm2 = normMonth(probe.nm)]
  /\ UNCHANGED app

NextMonth ==
  \/ applyNormalizeMonth
  \/ applyNormalizeMonthAgain
  \/ applyNormMonth
  \/ applyNormMonthAgain

SpecMonth == InitMonth /\ [][NextMonth]_vars

(* ------------------- the charts applied on their own ------------------ *)

\* Raw records for the charts: a zero and a negative open amount, equal
\* open amounts at different merchants, ratios on and off the bin borders.
ChartRaws ==
  { RawPlain, RawOct, RawSep, RawBadMonth,
    [Agent |-> <<"A", "b">>, Store |-> <<"M", "k">>, Open |-> <<"-", "5">>, Revenue |-> <<"1">>],
    [Agent |-> <<"G", "b">>, Store |-> <<"M", "a">>, Open |-> <<"1", "0", "0">>,
     Revenue |-> <<"3", "5">>],
    [Agent |-> <<"G", "b">>, Store |-> <<"M", "c">>, Open |-> <<"x">>, Revenue |-> <<"7">>],
    [Agent |-> AFeng, Store |-> <<"M", "b">>, Open |-> <<"1", "0">>, Revenue |-> <<"1">>] }

\* The rows the ingestion makes of them.
ChartRows == { toRow(r, <<>>) : r \in ChartRaws }

\* The longest list of ingested rows a chart is applied to.
MaxChartRows == 2

\* The topN select: [5,10,15,20].
TopNOptions == {5, 10, 15, 20}

\* Filtered sets: short lists of ingested rows, alone or after the seed.
ChartInputs ==
  LET short == SeqsUpTo(ChartRows, MaxChartRows) \cup {<<>>}
  IN  short \cup {seed \o t : t \in short}

InitCharts ==
  \E xs \in ChartInputs :
    InitIdle([fn |-> "charts", rows |-> [i \in 1..Len(xs) |-> AsDoubles(xs[i])], stage |-> 0, n |-> 10,
              hist |-> useRatioHistogram(<<>>), share |-> <<>>, pareto |-> <<>>, top |-> <<>>])

\* One render: hist, share, the Pareto chart and topOpen are computed from the filtered set.
applyRatioHistogram ==
  /\ probe.fn = "charts" /\ probe.stage = 0
  /\ probe' = [probe EXCEPT !.stage = 1, !.hist = useRatioHistogram(probe.rows)]
  /\ UNCHANGED app

applyRevenueShare ==
  /\ probe.fn = "charts" /\ probe.stage = 1
  /\ probe' = [probe EXCEPT !.stage = 2, !.share = useRevenueShareByAgent(probe.rows)]
  /\ UNCHANGED app

applyPareto ==
  /\ probe.fn = "charts" /\ probe.stage = 2
  /\ probe' = [probe EXCEPT !.stage = 3, !.pareto = useParetoByMerchant(probe.rows)]
  /\ UNCHANGED app

applyTopOpen(n) ==
  /\ probe.fn = "charts" /\ probe.stage = 3
  /\ probe' = [probe EXCEPT !.stage = 4, !.n = n, !.top = useTopOpenByMerchant(probe.rows, n)]
  /\ UNCHANGED app

NextCharts ==
  \/ applyRatioHistogram
  \/ applyRevenueShare
  \/ applyPareto
  \/ \E n \in TopNOptions : applyTopOpen(n)

SpecCharts == InitCharts /\ [][NextCharts]_vars

(* ---------------------- sessions of the comparison -------------------- *)

\* The files of a comparison session: d.csv brings the months 2025-09 and
\* 2025-10, a.csv one more row of a seed merchant in 2025-08 and a row of
\* the same merchant under another agent in 2025-07.
CompareFiles ==
  { [name |-> <<"d", ".", "c", "s", "v">>, data |-> <<RawSep, RawOct>>, bad |-> FALSE],
    [name |-> <<"a", ".", "c", "s", "v">>,
     data |-> << [Agent |-> JinJieKe, Store |-> <<"wan", "hao">>, Open |-> <<"1", "3", "0", "0">>,
                  Revenue |-> <<"3", "1", "0">>, Month |-> T_2025("0", "8")],
                 [Agent |-> <<"A", "b">>, Store |-> <<"wan", "hao">>, Open |-> <<"4", "0">>,
                  Revenue |-> <<"1", "0">>, Month |-> T_2025("0", "7")] >>,
     bad |-> FALSE] }

\* How many files are uploaded and how many controls are changed in a
\* comparison session.
MaxCompareFiles == 2
MaxCompareCtl == 2

InitCompare ==
  /\ rows = seed
  /\ selectedMonths = SelectionEffect(seed, <<>>)
  /\ agent = ALL /\ merchant = ALL
  /\ excludeAgent = <<>> /\ q = <<>>
  /\ appendMode = TRUE
  /\ batchMonth = <<>>
  /\ keyJoin = "agent+store"
  /\ monthA = OrElse(monthSetOf(seed), 1, Undef)
  /\ monthB = OrElse(monthSetOf(seed), 2, OrElse(monthSetOf(seed), 1, Undef))
  /\ uploads = <<>>
  /\ remote = "none"
  /\ filesLeft = MaxCompareFiles /\ ctlLeft = MaxCompareCtl
  /\ probe = NoProbe

NextCompare ==
  \/ \E f \in CompareFiles : onFilesStart(<<f>>)
  \/ \E k \in 1..Len(uploads) : onFilesFinish(k)
  \/ \E a \in {ALL} \cup Elems(agents) : setAgent(a)
  \/ \E m \in {ALL} \cup Elems(merchants) : setMerchant(m)
  \/ \E t \in ExcludePool : setExcludeAgent(t)
  \/ \E t \in SearchPool : setQ(t)
  \/ \E kj \in {"agent+store", "store"} : setKeyJoin(kj)
  \/ \E m \in {Undef} \cup Elems(monthSet) : setMonthA(m)
  \/ \E m \in {Undef} \cup Elems(monthSet) : setMonthB(m)
  \/ \E m \in Elems(allMonths) : clickMonth(m, FALSE)

\* Sessions with appended files and changes of the comparison controls.
SpecCompare == InitCompare /\ [][NextCompare]_vars

(* ------------------------------ claims -------------------------------- *)

ToRowDone == probe.fn = "toRow" /\ probe.done

NoRatioColumn(r) == \A i \in 1..Len(RatioKeys) : Get(r, RatioKeys[i]) = Undef

\* x = y / z for rationals, z # 0, by cross-multiplication.
IsQuotient(x, y, z) == x[1] * y[2] * z[1] = y[1] * z[2] * x[2]

\* C5: a raw record with no ratio column and a coerced open amount above 0
\* is ingested with ratio = revenue / open.
C5_RatioFallback ==
  (ToRowDone /\ NoRatioColumn(probe.raw) /\ probe.out.open[1] > 0)
    => IsQuotient(probe.out.ratio, probe.out.rev, probe.out.open)

C5_Witness ==
  /\ ToRowDone /\ NoRatioColumn(probe.raw)
  /\ probe.out.open = <<1200, 1>> /\ probe.out.rev = <<300, 1>>
  /\ probe.out.ratio = <<1, 4>>

\* The first ratio column, in alias order, that is present and non-empty.
RECURSIVE FirstNonEmpty(_, _)
FirstNonEmpty(r, ks) ==
  IF ks = <<>> THEN Undef
  ELSE IF Get(r, Head(ks)) # Undef /\ Get(r, Head(ks)) # <<>> THEN Get(r, Head(ks))
  ELSE FirstNonEmpty(r, Tail(ks))

\* C6: the ratio is (1) the value of a ratio column that is present and
\* non-empty, divided by 100 when it holds a percent sign; (2) otherwise
\* revenue / open when open > 0; (3) otherwise 0.
C6_RatioPrecedence ==
  (ToRowDone /\ IsValidRow(probe.out)) =>
    LET src == FirstNonEmpty(probe.raw, RatioKeys)
        o   == probe.out
    IN  IF src # Undef
        THEN IF \E i \in 1..Len(src) : src[i] = "%"
             THEN IsQuotient(o.ratio, num(src), Hundred)
             ELSE o.ratio = num(src)
        ELSE IF o.open[1] > 0 THEN IsQuotient(o.ratio, o.rev, o.open)
        ELSE o.ratio = Zero

\* Four digits, a hyphen, two digits.
IsCanonicalMonth(t) ==
  /\ Len(t) = 7
  /\ \A i \in {1, 2, 3, 4, 6, 7} : IsDigit(t[i])
  /\ t[5] = "-"

MonthProbe == probe.fn = "month"

\* C7, as stated: both normalizers return every canonical YYYY-MM string
\* unchanged, and applying either to its own output changes nothing.
C7_Original ==
  MonthProbe =>
    /\ (probe.nz # Unset /\ IsCanonicalMonth(probe.text)) => probe.nz = probe.text
    /\ (probe.nm # Unset /\ IsCanonicalMonth(probe.text)) => probe.nm = probe.text
    /\ probe.nz2 # Unset => probe.nz2 = probe.nz
    /\ probe.nm2 # Unset => probe.nm2 = probe.nm

HasNoSpace(t) == t = Undef \/ \A i \in 1..Len(Trim(t)) : ~IsSpace(Trim(t)[i])

\* C7, amended: normalizeMonth returns a canonical YYYY-MM string unchanged
\* when its year is 2000-2099; normMonth returns every canonical string
\* unchanged; normalizeMonth applied to its own output changes nothing;
\* normMonth applied to its own output changes nothing when the input has
\* no white space other than at its ends.
C7_Idempotent ==
  MonthProbe =>
    /\ (/\ probe.nz # Unset /\ IsCanonicalMonth(probe.text)
        /\ probe.text[1] = "2" /\ probe.text[2] = "0") => probe.nz = probe.text
    /\ (probe.nm # Unset /\ IsCanonicalMonth(probe.text)) => probe.nm = probe.text
    /\ probe.nz2 # Unset => probe.nz2 = probe.nz
    /\ (probe.nm2 # Unset /\ HasNoSpace(probe.text)) => probe.nm2 = probe.nm

C7_Witness ==
  /\ MonthProbe
  /\ probe.text = <<"2", "0", "9", "9", "-", "0", "7">>
  /\ probe.nz = probe.text /\ probe.nz2 = probe.text
  /\ probe.nm = probe.text /\ probe.nm2 = probe.text

(* ----------------------- claims about the session --------------------- *)

\* The raw records of a list of files, in file order.
RECURSIVE AllRaw(_)
AllRaw(fs) == IF fs = <<>> THEN <<>> ELSE Head(fs).data \o AllRaw(Tail(fs))

RawAgent(r) == Trim(Coalesce(r, AgentKeys, <<>>))
RawStore(r) == Trim(Coalesce(r, StoreKeys, <<>>))

\* The raw records of an upload that name an agent and a merchant.
ValidRaws(fs) == SelectSeq(AllRaw(fs), LAMBDA r : RawAgent(r) # <<>> /\ RawStore(r) # <<>>)

\* This step is the merge of upload k.
Merges(k) ==
  /\ uploads[k].idx = Len(uploads[k].files)
  /\ ~uploads[k].files[uploads[k].idx].bad
  /\ uploads' = RemoveAt(uploads, k)

\* C1: a merge in Append mode yields the previous dataset followed by the
\* incoming valid rows in their incoming order, a merge in Replace mode
\* yields the incoming valid rows alone.
C1_MergeResult ==
  [][\A k \in 1..Len(uploads) :
       Merges(k) =>
         LET u    == uploads[k]
             base == IF u.am THEN rows ELSE <<>>
             inc  == ValidRaws(u.files)
         IN  /\ Len(rows') = Len(base) + Len(inc)
             /\ \A i \in 1..Len(base) : rows'[i] = base[i]
             /\ \A i \in 1..Len(inc) :
                  /\ rows'[Len(base) + i].agent = RawAgent(inc[i])
                  /\ rows'[Len(base) + i].store = RawStore(inc[i])
                  /\ rows'[Len(base) + i].rev = num(Coalesce(inc[i], RevKeys, Undef))]_vars

C1_Witness ==
  /\ uploads = <<>>
  /\ Len(rows) = Len(seed) + 2
  /\ \A i \in 1..Len(seed) : rows[i] = seed[i]
  /\ rows[Len(seed) + 1].agent = JinJieKe /\ rows[Len(seed) + 1].month = T_2025("0", "9")
  /\ rows[Len(seed) + 2].agent = <<"G", "b">>

\* C2: every row of the dataset names an agent and a merchant.
C2_NamedRows ==
  \A i \in 1..Len(rows) : Trim(rows[i].agent) # <<>> /\ Trim(rows[i].store) # <<>>

\* One file was merged, and of its two records only the named one came in.
C2_Witness ==
  /\ uploads = <<>> /\ filesLeft = MaxFiles - 1
  /\ Len(rows) = Len(seed) + 1
  /\ rows[Len(seed) + 1].agent = <<"A", "b">>

\* C3: the month of every row of the dataset is a canonical YYYY-MM token
\* or the "unspecified" sentinel, never absent.
C3_MonthTokens ==
  \A i \in 1..Len(rows) :
    /\ rows[i].month # Undef
    /\ IsCanonicalMonth(rows[i].month) \/ rows[i].month = Unspecified

\* The month a raw record resolves to by itself.
OwnMonth(r) == normalizeMonth(Coalesce(r, MonthKeys, Undef))

\* C4: in a merge, an incoming row whose own month did not resolve gets the
\* normalized batch month, or the sentinel when the batch month is empty or
\* does not parse; a row whose own month resolved keeps it.
C4_BatchFallback ==
  [][\A k \in 1..Len(uploads) :
       Merges(k) =>
         LET u    == uploads[k]
             base == IF u.am THEN rows ELSE <<>>
             inc  == ValidRaws(u.files)
         IN  /\ Len(rows') = Len(base) + Len(inc)
             /\ \A i \in 1..Len(inc) :
                  rows'[Len(base) + i].month =
                    IF OwnMonth(inc[i]) # Undef THEN OwnMonth(inc[i])
                    ELSE IF normalizeMonth(u.bm) # Undef THEN normalizeMonth(u.bm)
                    ELSE Unspecified]_vars

\* A record with an unparsable month column came in under the batch month.
C4_Witness ==
  /\ uploads = <<>>
  /\ \E i \in 1..Len(rows) :
       /\ i > Len(seed)
       /\ rows[i].agent = AFeng /\ rows[i].month = T_2025("1", "1")

\* A row meets the agent, merchant and search criteria.
PassOthers(r) ==
  /\ agent = ALL \/ r.agent = agent
  /\ merchant = ALL \/ r.store = merchant
  /\ Trim(q) = <<>> \/ Includes(ToLowerCase(r.agent), ToLowerCase(Trim(q)))
                    \/ Includes(ToLowerCase(r.store), ToLowerCase(Trim(q)))

\* The month criterion is in force: some, but not all, months are selected.
MonthLock == Len(selectedMonths) # 0 /\ Elems(selectedMonths) # Elems(allMonths)

PassMonth(r) == MonthLock => normMonth(r.month) \in Elems(selectedMonths)

\* The maximal runs of glyphs of s that hold no comma and no white space.
TokenSet(s) ==
  { Slice(s, i, j) : <<i, j>> \in
      { p \in (1..Len(s)) \X (1..Len(s)) :
          /\ p[1] <= p[2]
          /\ \A n \in p[1]..p[2] : ~IsTokenSep(s[n])
          /\ p[1] = 1 \/ IsTokenSep(s[p[1] - 1])
          /\ p[2] = Len(s) \/ IsTokenSep(s[p[2] + 1]) } }

Excluded(r) == \E tok \in TokenSet(excludeAgent) : Includes(r.agent, tok)

\* C8: the filtered set is the subsequence of the dataset whose rows meet
\* every criterion: agent, merchant, exclusion, search and selected months.
C8_FilteredIsConjunction ==
  filtered = SelectSeq(rows, LAMBDA r : PassMonth(r) /\ PassOthers(r) /\ ~Excluded(r))

\* C9: a row is dropped by the exclusion exactly when its agent contains one
\* of the tokens of the exclusion text (split on commas and white space,
\* empty pieces dropped), compared case-sensitively.
C9_Exclusion ==
  filtered =
    SelectSeq(filteredOf(rows, selectedMonths, agent, merchant, <<>>, q),
              LAMBDA r : ~Excluded(r))

\* Two tokens, "g" and "A": the agent "Ab" is dropped, the agent "Gb" stays.
C9_Witness ==
  /\ TokenSet(excludeAgent) = {<<"g">>, <<"A">>}
  /\ \E i \in 1..Len(rows) : rows[i].agent = <<"A", "b">>
  /\ \A i \in 1..Len(filtered) : filtered[i].agent # <<"A", "b">>
  /\ \E i \in 1..Len(filtered) : filtered[i].agent = <<"G", "b">>

\* C10: with no remote source, whenever some but not all known months are
\* selected, every filtered row's month is a selected one.
C10_MonthLock ==
  (remote = "none" /\ MonthLock) =>
    \A i \in 1..Len(filtered) : normMonth(filtered[i].month) \in Elems(selectedMonths)

(* ----------------------- claims about the charts ---------------------- *)

HistogramDone == probe.fn = "charts" /\ probe.stage >= 1
ShareDone == probe.fn = "charts" /\ probe.stage >= 2
ParetoDone == probe.fn = "charts" /\ probe.stage >= 3
TopOpenDone == probe.fn = "charts" /\ probe.stage >= 4

\* Each merchant of the filtered set with its summed open amount.
MerchantSums == GroupSums(probe.rows, "store", "open")

\* The cumulative shares do not fall from one entry to the next.
SharesRise ==
  \A k \in 1..(Len(probe.pareto) - 1) : ~FLess(probe.pareto[k + 1].cum, probe.pareto[k].cum)

\* The last cumulative share is within 0.01 of 100.
SharesEndAtHundred ==
  LET off == FSub(probe.pareto[Len(probe.pareto)].cum, FromInt(100))
  IN  ~FLess(D(Rat(1, 100)), [off EXCEPT !.s = 0])

\* No merchant's summed open amount is negative, and the total is positive.
PositiveOpen ==
  /\ \A k \in 1..Len(MerchantSums) : MerchantSums[k].value.s = 0
  /\ \E k \in 1..Len(MerchantSums) : MerchantSums[k].value # FZero

\* C11 as stated: for every non-empty filtered set the cumulative shares
\* never fall and end at 100 (within 0.01); an empty set gives an empty view.
C11_Original ==
  ParetoDone =>
    /\ probe.rows = <<>> => probe.pareto = <<>>
    /\ probe.rows # <<>> => SharesRise /\ SharesEndAtHundred

\* C11, amended: for every filtered set in which no merchant's summed open
\* amount is negative and the total is positive, the cumulative shares never
\* fall and end at 100 (within 0.01); an empty set gives an empty view.
C11_ParetoShares ==
  ParetoDone =>
    /\ probe.rows = <<>> => probe.pareto = <<>>
    /\ PositiveOpen => SharesRise /\ SharesEndAtHundred

\* Several merchants with positive sums: the shares climb from below 100.
C11_Witness ==
  /\ ParetoDone /\ PositiveOpen
  /\ Len(probe.pareto) >= 3
  /\ FLess(probe.pareto[1].cum, probe.pareto[2].cum)
  /\ probe.pareto[Len(probe.pareto)].cum = FromInt(100)

\* The row's ratio lies in the bin it was counted in: _a <= ratio < _b.
InOwnBin(h, i) ==
  /\ h.idx[i] \in 0..(Len(h.bins) - 1)
  /\ ~FLess(probe.rows[i].ratio, h.bins[h.idx[i] + 1].a)
  /\ FLess(probe.rows[i].ratio, h.bins[h.idx[i] + 1].b)

\* The counts of bins 0..k added up.
RECURSIVE CountsUpTo(_, _)
CountsUpTo(h, k) == IF k < 0 THEN 0 ELSE BinCount(h, k) + CountsUpTo(h, k - 1)

\* C12: for a non-empty filtered set every row is counted in exactly one
\* histogram bin, the bounds of that bin contain the row's ratio
\* (lower <= ratio < upper), and the bin counts add up to the number of rows.
C12_HistogramCoverage ==
  (HistogramDone /\ probe.rows # <<>>)
    => /\ \A i \in 1..Len(probe.rows) : InOwnBin(probe.hist, i)
       /\ CountsUpTo(probe.hist, Len(probe.hist.bins) - 1) = Len(probe.rows)

\* The part of C12 the code keeps: every row is counted once, in a bin that exists.
C12_CountedOnce ==
  (HistogramDone /\ probe.rows # <<>>)
    => /\ \A i \in 1..Len(probe.rows) : probe.hist.idx[i] \in 0..(Len(probe.hist.bins) - 1)
       /\ CountsUpTo(probe.hist, Len(probe.hist.bins) - 1) = Len(probe.rows)

\* The seed rows alone: the histogram of the page as it opens.
C12_SeedMisbinned ==
  (HistogramDone /\ Len(probe.rows) = Len(seed)) => \A i \in 1..Len(probe.rows) : InOwnBin(probe.hist, i)

\* x and y differ by no more than 1e-9: equal but for the rounding of doubles.
Near(x, y) == ~FLess(FromRat(0, <<1>>, BPow10(9)), [FSub(x, y) EXCEPT !.s = 0])

\* floor((min - step) / step) * step and ceil((max + step) / step) * step
\* of the ratios of the filtered set, computed in doubles.
RangeFloor ==
  FMul(FromInt(FloorInt(FDiv(FSub(MinRatio(probe.rows, 2, probe.rows[1].ratio), Step), Step))), Step)
RangeCeiling ==
  FMul(FromInt(CeilInt(FDiv(FAdd(MaxRatio(probe.rows, 2, probe.rows[1].ratio), Step), Step))), Step)

\* Every bin is one step wide and starts where the one before it ends.
BinsContiguous(h) ==
  /\ \A k \in 1..Len(h.bins) : Near(FSub(h.bins[k].b, h.bins[k].a), Step)
  /\ \A k \in 1..(Len(h.bins) - 1) : Near(h.bins[k].b, h.bins[k + 1].a)

\* The bins span the range: the first starts at the floor, the last ends at the ceiling.
BinsSpanRange(h) ==
  /\ h.bins # <<>>
  /\ Near(h.bins[1].a, RangeFloor)
  /\ Near(h.bins[Len(h.bins)].b, RangeCeiling)

\* Every ratio lies strictly inside the range.
RatiosInside ==
  \A i \in 1..Len(probe.rows) :
    FLess(RangeFloor, probe.rows[i].ratio) /\ FLess(probe.rows[i].ratio, RangeCeiling)

\* The clamp to [0, binCount - 1] leaves every computed index as it is.
ClampIdle(h) == \A i \in 1..Len(probe.rows) : h.idx[i] = h.raw[i]

\* C13: the histogram bins are contiguous and one step wide, the first
\* starting at floor((min-step)/step)*step and the last ending at
\* ceil((max+step)/step)*step (each up to the rounding of doubles, 1e-9);
\* every ratio lies strictly inside that range and the clamp of the bin
\* index changes no row's index.
C13_HistogramRange ==
  (HistogramDone /\ probe.rows # <<>>)
    => /\ BinsContiguous(probe.hist)
       /\ BinsSpanRange(probe.hist)
       /\ RatiosInside
       /\ ClampIdle(probe.hist)

\* The parts of C13 the code keeps: all but the end of the last bin.
C13_AllButLastBin ==
  (HistogramDone /\ probe.rows # <<>>)
    => /\ BinsContiguous(probe.hist)
       /\ probe.hist.bins # <<>> /\ Near(probe.hist.bins[1].a, RangeFloor)
       /\ RatiosInside
       /\ ClampIdle(probe.hist)

\* The seed rows alone: the last bin of the opening page ends at the ceiling.
C13_SeedExtraBin ==
  (HistogramDone /\ Len(probe.rows) = Len(seed)) => BinsSpanRange(probe.hist)

\* The merchants of the Top-N view.
TopNames == {probe.top[k].name : k \in 1..Len(probe.top)}

\* C14: the Top-N view has min(N, number of distinct merchants) entries,
\* one per merchant with the merchant's summed open amount as its value,
\* in ascending order of value, and no merchant left out of the view has a
\* larger sum than a merchant in it.
C14_TopN ==
  TopOpenDone
    => /\ Len(probe.top) = (IF probe.n < Len(MerchantSums) THEN probe.n ELSE Len(MerchantSums))
       /\ \A k \in 1..Len(probe.top) : \E j \in 1..Len(MerchantSums) : probe.top[k] = MerchantSums[j]
       /\ \A j, k \in 1..Len(probe.top) : probe.top[j].name = probe.top[k].name => j = k
       /\ \A k \in 1..(Len(probe.top) - 1) : ~FLess(probe.top[k + 1].value, probe.top[k].value)
       /\ \A j \in 1..Len(MerchantSums) :
            MerchantSums[j].name \notin TopNames
              => \A k \in 1..Len(probe.top) : ~FLess(probe.top[k].value, MerchantSums[j].value)

\* More merchants than N, of different sums: the view is cut and rises.
C14_Witness ==
  /\ TopOpenDone
  /\ Len(MerchantSums) > probe.n
  /\ Len(probe.top) = probe.n
  /\ FLess(probe.top[1].value, probe.top[Len(probe.top)].value)
  /\ \E j \in 1..Len(MerchantSums) :
       MerchantSums[j].name \notin TopNames /\ FLess(MerchantSums[j].value, probe.top[1].value)

(* -------------------- claims about the comparison --------------------- *)

BothSelected == monthA # Undef /\ monthA # <<>> /\ monthB # Undef /\ monthB # <<>>

\* The rows of a period that are not excluded, and the join keys among them.
PeriodRows(m) == {i \in 1..Len(rows) : passExclude(rows[i]) /\ rows[i].month = m}
PeriodKeys(m) == {keyFn(keyJoin, rows[i]) : i \in PeriodRows(m)}

\* The rows of the comparison out that carry join key k.
RowsOfKey(out, k) == {i \in 1..Len(out) : keyFn(keyJoin, out[i]) = k}

\* out has exactly one row per key of keys, each delta being B minus A.
IsOuterJoin(out, keys) ==
  /\ Len(out) = Cardinality(keys)
  /\ \A k \in keys : Cardinality(RowsOfKey(out, k)) = 1
  /\ \A i \in 1..Len(out) :
       /\ out[i].dRev = RatSub(out[i].revB, out[i].revA)
       /\ out[i].dOpen = RatSub(out[i].openB, out[i].openA)
       /\ out[i].dRatio = RatSub(out[i].ratioB, out[i].ratioA)

\* C15: with two periods selected, under either join key, the comparison
\* has exactly one row per join key present in period A or period B, and
\* in every row each delta is the value of B minus the value of A.
C15_OuterJoin ==
  BothSelected => IsOuterJoin(compareRows, PeriodKeys(monthA) \cup PeriodKeys(monthB))

\* Two different periods sharing a key, keys of one period only, and a
\* revenue that changed from A to B, under the merchant-only join.
C15_Witness ==
  /\ BothSelected /\ monthA # monthB /\ keyJoin = "store"
  /\ PeriodKeys(monthA) \cap PeriodKeys(monthB) # {}
  /\ PeriodKeys(monthA) \ PeriodKeys(monthB) # {}
  /\ PeriodKeys(monthB) \ PeriodKeys(monthA) # {}
  /\ \E i \in 1..Len(compareRows) :
       compareRows[i].revA # Zero /\ compareRows[i].revB # Zero /\ compareRows[i].dRev # Zero

\* A period is unresolved: none is selected, or the dataset has no row of it.
Unresolved(m) == m = Undef \/ m = <<>> \/ ~(\E i \in 1..Len(rows) : rows[i].month = m)

\* C16 as stated: if either comparison period is unresolved (no period is
\* selected for it, or the dataset has no rows for it), the comparison is
\* the empty list.
C16_Original == (Unresolved(monthA) \/ Unresolved(monthB)) => compareRows = <<>>

\* C16: if either comparison period is not selected, or if neither of the
\* selected periods has a row left after the exclusions, the comparison is
\* the empty list; a selected period without rows against one with rows
\* gives a comparison that is not empty.
C16_Unresolved ==
  /\ ~BothSelected => compareRows = <<>>
  /\ (BothSelected /\ PeriodRows(monthA) = {} /\ PeriodRows(monthB) = {}) => compareRows = <<>>
  /\ (BothSelected /\ (PeriodRows(monthA) = {}) # (PeriodRows(monthB) = {})) => compareRows # <<>>

\* One period is not selected while the other is, and has rows.
C16_Witness ==
  /\ ~BothSelected
  /\ \E m \in {monthA, monthB} : m # Undef /\ m # <<>> /\ PeriodRows(m) # {}
  /\ compareRows = <<>>

\* Both periods are selected and neither has rows.
C16_WitnessNoRows ==
  /\ BothSelected /\ PeriodRows(monthA) = {} /\ PeriodRows(monthB) = {}
  /\ rows # <<>> /\ compareRows = <<>>

\* The comparison row of a key that only period B has: zeros on side A,
\* the labels of B's row, and the other way round.
OneSided(row, onlyA) ==
  IF onlyA
  THEN /\ row.openB = Zero /\ row.revB = Zero /\ row.ratioB = Zero
       /\ row.dRev = RatSub(Zero, row.revA)
       /\ \E i \in PeriodRows(monthA) :
            /\ rows[i].agent = row.agent /\ rows[i].store = row.store
            /\ rows[i].open = row.openA /\ rows[i].rev = row.revA /\ rows[i].ratio = row.ratioA
  ELSE /\ row.openA = Zero /\ row.revA = Zero /\ row.ratioA = Zero
       /\ row.dRev = row.revB
       /\ \E i \in PeriodRows(monthB) :
            /\ rows[i].agent = row.agent /\ rows[i].store = row.store
            /\ rows[i].open = row.openB /\ rows[i].rev = row.revB /\ rows[i].ratio = row.ratioB

\* Every row of out whose key only one period has is one-sided; when B
\* has no rows at all, out has one row per key of A.
MissingSideIsZero(out) ==
  /\ \A i \in 1..Len(out) :
       /\ keyFn(keyJoin, out[i]) \in PeriodKeys(monthA) \ PeriodKeys(monthB) => OneSided(out[i], TRUE)
       /\ keyFn(keyJoin, out[i]) \in PeriodKeys(monthB) \ PeriodKeys(monthA) => OneSided(out[i], FALSE)
  /\ PeriodKeys(monthB) = {} =>
       /\ Len(out) = Cardinality(PeriodKeys(monthA))
       /\ \A k \in PeriodKeys(monthA) : \E i \in 1..Len(out) : keyFn(keyJoin, out[i]) = k

\* C17: for a join key present in only one of the two selected periods the
\* comparison row carries 0 for the open, revenue and ratio of the missing
\* period and the agent and merchant of the present side; a period with
\* rows against a selected period with none gives one row per key of the
\* first, each with side-B fields 0 and deltaRevenue = -revenueA.
C17_MissingSide == BothSelected => MissingSideIsZero(compareRows)

\* A period with rows is compared with a selected period without rows, and
\* some revenue of the first is not zero.
C17_Witness ==
  /\ BothSelected
  /\ PeriodKeys(monthB) = {} /\ Cardinality(PeriodKeys(monthA)) >= 2
  /\ Len(compareRows) = Cardinality(PeriodKeys(monthA))
  /\ \E i \in 1..Len(compareRows) : RatLess(compareRows[i].dRev, Zero)

\* Side A (or B) of a comparison row is a row of that period which is not
\* excluded and has the row's key, or zeros when the period has no such row.
FromKeptRows(row, m, open, rev, ratio) ==
  IF keyFn(keyJoin, row) \in PeriodKeys(m)
  THEN \E i \in PeriodRows(m) :
         /\ keyFn(keyJoin, rows[i]) = keyFn(keyJoin, row)
         /\ rows[i].open = open /\ rows[i].rev = rev /\ rows[i].ratio = ratio
  ELSE open = Zero /\ rev = Zero /\ ratio = Zero

\* No comparison row stems from an excluded row.
ExcludedNeverContribute(out) ==
  \A i \in 1..Len(out) :
    /\ keyFn(keyJoin, out[i]) \in PeriodKeys(monthA) \cup PeriodKeys(monthB)
    /\ FromKeptRows(out[i], monthA, out[i].openA, out[i].revA, out[i].ratioA)
    /\ FromKeptRows(out[i], monthB, out[i].openB, out[i].revB, out[i].ratioB)

\* The comparison the page would show with other filters of the detail
\* table: selected months sel, agent ag, merchant me, search text qq, and
\* exclusion text excl.
ComparisonWith(sel, ag, me, excl, qq) ==
  compareRowsOf(baseRowsForCompareOf(rows, sel, ag, me, excl, qq), monthA, monthB, keyJoin)

\* The comparison is the same under every other agent filter, merchant
\* filter, search text and month selection, and under every exclusion
\* text that has the same tokens.
SameUnderOtherFilters(out) ==
  /\ \A ag \in {ALL} \cup Elems(agents) : ComparisonWith(selectedMonths, ag, ALL, excludeAgent, q) = out
  /\ \A me \in {ALL} \cup Elems(merchants) : ComparisonWith(selectedMonths, agent, me, excludeAgent, q) = out
  /\ \A qq \in SearchPool : ComparisonWith(selectedMonths, agent, merchant, excludeAgent, qq) = out
  /\ \A m \in Elems(allMonths) : ComparisonWith(<<m>>, agent, merchant, excludeAgent, q) = out
  /\ \A excl \in ExcludePool :
       excludeTokensOf(excl) = excludeTokens => ComparisonWith(selectedMonths, agent, merchant, excl, q) = out

\* C18: the comparison depends only on the dataset, the exclusion tokens,
\* the two periods and the join key: states that differ only in the agent
\* filter, the merchant filter, the search text or the selected months
\* have the same comparison; and rows whose agent contains an exclusion
\* token never contribute.
C18_ComparisonInputs ==
  /\ SameUnderOtherFilters(compareRows)
  /\ BothSelected => ExcludedNeverContribute(compareRows)

\* A comparison with an excluded row in one of its periods, while the
\* filters of the table hide a row the comparison shows.
C18_Witness ==
  /\ BothSelected /\ compareRows # <<>>
  /\ \E i \in 1..Len(rows) : ~passExclude(rows[i]) /\ rows[i].month \in {monthA, monthB}
  /\ \E i \in PeriodRows(monthA) \cup PeriodRows(monthB) : rows[i] \notin Elems(filtered)

(* ---------------------- claims about repeated data -------------------- *)

\* The rows a file of the comparison sessions is ingested as.
BatchOf(f) == mergedOf(ParseRows(f.data, <<>>), <<>>)

\* The dataset ends with batch b appended twice.
AppendedTwice(b) ==
  /\ b # <<>> /\ Len(rows) >= 2 * Len(b)
  /\ SubSeq(rows, Len(rows) - Len(b) + 1, Len(rows)) = b
  /\ SubSeq(rows, Len(rows) - 2 * Len(b) + 1, Len(rows) - Len(b)) = b

\* The dataset without the last t copies of b.
Without(b, t) == SubSeq(rows, 1, Len(rows) - t * Len(b))

\* The rows of rs the filters of the detail table let through, as doubles.
Shown(rs) ==
  LET kept == SelectSeq(rs, LAMBDA r : r \in Elems(filtered))
  IN  [i \in 1..Len(kept) |-> AsDoubles(kept[i])]

\* The value a chart view has for a name, 0 when the name is not in it.
ValueIn(view, name) ==
  LET at == {i \in 1..Len(view) : view[i].name = name}
  IN  IF at = {} THEN FZero ELSE view[CHOOSE i \in at : TRUE].value

\* From view v0 to v1 and from v1 to v2 every name gains the same value.
GainsTwice(v0, v1, v2) ==
  \A i \in 1..Len(v2) :
    FSub(ValueIn(v2, v2[i].name), ValueIn(v1, v2[i].name))
      = FSub(ValueIn(v1, v2[i].name), ValueIn(v0, v2[i].name))

\* The KPI totals grow by the same amounts with each copy.
KpiGainsTwice(k0, k1, k2) ==
  /\ RatSub(k2.open, k1.open) = RatSub(k1.open, k0.open)
  /\ RatSub(k2.rev, k1.rev) = RatSub(k1.rev, k0.rev)

\* Every histogram bin counts the rows of the second copy as it counted
\* those of the first (n rows each, the last rows of the input).
BinsGainTwice(h1, h2, n) ==
  /\ Len(h2.bins) = Len(h1.bins)
  /\ \A k \in 0..(Len(h2.bins) - 1) :
       BinCount(h2, k) - BinCount(h1, k)
         = Cardinality({i \in (Len(h1.idx) - n + 1)..Len(h1.idx) : h1.idx[i] = k})

\* The kept rows of a dataset: KPI and chart sums double-count batch b.
SumsDoubleCount(f0, f1, f2) ==
  /\ GainsTwice(useParetoByMerchant(f0), useParetoByMerchant(f1), useParetoByMerchant(f2))
  /\ GainsTwice(useTopOpenByMerchant(f0, 10), useTopOpenByMerchant(f1, 10),
                useTopOpenByMerchant(f2, 10))
  /\ GainsTwice(useRevenueShareByAgent(f0), useRevenueShareByAgent(f1), useRevenueShareByAgent(f2))
  /\ BinsGainTwice(useRatioHistogram(f1), useRatioHistogram(f2), Len(f2) - Len(f1))

\* The comparison of the dataset rs.
ComparisonOf(rs) ==
  compareRowsOf(baseRowsForCompareOf(rs, selectedMonths, agent, merchant, excludeAgent, q),
                monthA, monthB, keyJoin)

\* The comparison row of out with the key of row, all zeros when there is none.
RowLike(out, row) ==
  LET at == {i \in 1..Len(out) : keyFn(keyJoin, out[i]) = keyFn(keyJoin, row)}
  IN  IF at = {} THEN compareRowOf(<<>>, <<>>) ELSE out[CHOOSE i \in at : TRUE]

\* Every key's open and revenue of both periods grow by the same amount
\* with each copy.
ComparisonGainsTwice(c0, c1, c2) ==
  \A i \in 1..Len(c2) :
    \A f \in {"openA", "openB", "revA", "revB"} :
      RatSub(c2[i][f], RowLike(c1, c2[i])[f]) = RatSub(RowLike(c1, c2[i])[f], RowLike(c0, c2[i])[f])

\* C19: nothing is deduplicated on ingestion: after the same batch has been
\* appended a second time all of its rows are in the dataset twice, and
\* every aggregate counts them twice: the KPI totals, the sums per
\* merchant of the Pareto and Top-N views, the revenue sums per agent, the
\* histogram counts, and the open and revenue of each key of the period
\* comparison.
C19_DoubleCount ==
  \A f \in CompareFiles :
    AppendedTwice(BatchOf(f)) =>
      /\ Len(rows) = Len(Without(BatchOf(f), 2)) + 2 * Len(BatchOf(f))
      /\ KpiGainsTwice(kpiOf(SelectSeq(Without(BatchOf(f), 2), LAMBDA r : r \in Elems(filtered))),
                       kpiOf(SelectSeq(Without(BatchOf(f), 1), LAMBDA r : r \in Elems(filtered))),
                       kpi)
      /\ SumsDoubleCount(Shown(Without(BatchOf(f), 2)), Shown(Without(BatchOf(f), 1)), Shown(rows))
      /\ ComparisonGainsTwice(ComparisonOf(Without(BatchOf(f), 2)),
                              ComparisonOf(Without(BatchOf(f), 1)), compareRows)

\* The part of C19 the code keeps: all but the period comparison.
C19_SumsDoubleCount ==
  \A f \in CompareFiles :
    AppendedTwice(BatchOf(f)) =>
      /\ KpiGainsTwice(kpiOf(SelectSeq(Without(BatchOf(f), 2), LAMBDA r : r \in Elems(filtered))),
                       kpiOf(SelectSeq(Without(BatchOf(f), 1), LAMBDA r : r \in Elems(filtered))),
                       kpi)
      /\ SumsDoubleCount(Shown(Without(BatchOf(f), 2)), Shown(Without(BatchOf(f), 1)), Shown(rows))

\* The repeated batch is shown: the second copy raised a KPI total.
C19_Repeated ==
  \E f \in CompareFiles :
    /\ AppendedTwice(BatchOf(f))
    /\ RatLess(kpiOf(SelectSeq(Without(BatchOf(f), 1), LAMBDA r : r \in Elems(filtered))).open, kpi.open)

(* ------------------------ claims about row order ---------------------- *)

\* rs with its rows i and i + 1 exchanged.
Swapped(rs, i) == [k \in 1..Len(rs) |-> IF k = i THEN rs[i + 1] ELSE IF k = i + 1 THEN rs[i] ELSE rs[k]]

\* Two histograms have the same bins and the same count in every bin.
SameCounts(h1, h2) ==
  /\ h1.bins = h2.bins
  /\ \A k \in 0..(Len(h1.bins) - 1) : BinCount(h1, k) = BinCount(h2, k)

\* The view computed last is the same for the rows in the order rs.
SameViewFor(rs) ==
  /\ probe.stage = 1 => SameCounts(useRatioHistogram(rs), probe.hist)
  /\ probe.stage = 2 => useRevenueShareByAgent(rs) = probe.share
  /\ probe.stage = 3 => useParetoByMerchant(rs) = probe.pareto
  /\ probe.stage = 4 => useTopOpenByMerchant(rs, probe.n) = probe.top

\* The histogram counts are the same for the rows in the order rs.
SameCountsFor(rs) == probe.stage = 1 => SameCounts(useRatioHistogram(rs), probe.hist)

\* No two entries of the list of sums have the same value.
DistinctValues(sums) == \A i, j \in 1..Len(sums) : sums[i].value = sums[j].value => i = j

\* Every open amount and revenue is a whole number, so that sums of them
\* are exact in any order.
WholeAmounts ==
  \A i \in 1..Len(probe.rows) :
    /\ FromInt(FloorInt(probe.rows[i].open)) = probe.rows[i].open
    /\ FromInt(FloorInt(probe.rows[i].rev)) = probe.rows[i].rev

\* The sums the view computed last is sorted by are all different: the
\* revenue sums of the agents for the revenue-share view, the open sums of
\* the merchants for the Pareto and Top-N views.
NoTies ==
  IF probe.stage = 2
  THEN DistinctValues(GroupSums(probe.rows, "agent", "rev"))
  ELSE DistinctValues(MerchantSums)

\* C20 as stated: every aggregation is independent of the order of the
\* rows: the Pareto view, the revenue-share view, the Top-N view and the
\* histogram bin counts are the same after two neighbouring rows of the
\* filtered set are exchanged.
C20_Original ==
  (probe.fn = "charts" /\ probe.stage >= 1)
    => \A i \in 1..(Len(probe.rows) - 1) : SameViewFor(Swapped(probe.rows, i))

\* C20: the histogram bin counts are independent of the order of the rows;
\* so are the revenue-share view when no two agents have the same summed
\* revenue, and the Pareto and Top-N views when no two merchants have the
\* same summed open amount, the amounts being whole numbers.
C20_OrderIndependent ==
  (probe.fn = "charts" /\ probe.stage >= 1)
    => \A i \in 1..(Len(probe.rows) - 1) :
         /\ SameCountsFor(Swapped(probe.rows, i))
         /\ (NoTies /\ WholeAmounts) => SameViewFor(Swapped(probe.rows, i))

\* Rows of different merchants are exchanged, which changes the order of
\* the Map the Top-N view is made from, and the view is cut to N.
C20_Witness ==
  /\ TopOpenDone /\ NoTies /\ WholeAmounts
  /\ Len(MerchantSums) > probe.n
  /\ \E i \in 1..(Len(probe.rows) - 1) :
       /\ GroupSums(Swapped(probe.rows, i), "store", "open") # MerchantSums
       /\ useTopOpenByMerchant(Swapped(probe.rows, i), probe.n) = probe.top

(* ------------------------- the two coercers --------------------------- *)

\* s.replace(/,/g, '')
RECURSIVE StripCommas(_)
StripCommas(s) ==
  IF s = <<>> THEN <<>>
  ELSE IF Head(s) = "," THEN StripCommas(Tail(s))
       ELSE <<Head(s)>> \o StripCommas(Tail(s))

\* s.replace('%', ''): a text pattern replaces the first occurrence only.
ReplaceFirstPercent(s) ==
  LET at == {i \in 1..Len(s) : s[i] = "%"}
  IN  IF at = {} THEN s
      ELSE LET i == CHOOSE j \in at : \A k \in at : j <= k
           IN  Slice(s, 1, i - 1) \o Slice(s, i + 1, Len(s))

\* s.replace(/[^\d.\-]/g, '')
RECURSIVE KeepNumeric(_)
KeepNumeric(s) ==
  IF s = <<>> THEN <<>>
  ELSE IF IsDigit(Head(s)) \/ Head(s) = "." \/ Head(s) = "-"
       THEN <<Head(s)>> \o KeepNumeric(Tail(s))
       ELSE KeepNumeric(Tail(s))

\* The length of the run of digits s starts with.
RECURSIVE DigitRun(_)
DigitRun(s) ==
  IF s = <<>> \/ ~IsDigit(Head(s)) THEN 0 ELSE 1 + DigitRun(Tail(s))

\* parseFloat(s): leading white space is skipped, then the longest prefix
\* that is an optional sign and digits with an optional fraction is
\* converted; NaN when that prefix has no digit.  (Exponents and Infinity
\* use letters outside the alphabet of the numeric inputs.)
parseFloat(s) ==
  LET t    == TrimStart(s)
      neg  == t # <<>> /\ Head(t) = "-"
      body == IF t # <<>> /\ (Head(t) = "-" \/ Head(t) = "+") THEN Tail(t) ELSE t
      il   == DigitRun(body)
      rest == Slice(body, il + 1, Len(body))
      fl   == IF rest # <<>> /\ Head(rest) = "." THEN DigitRun(Tail(rest)) ELSE 0
      ip   == Slice(body, 1, il)
      fp   == Slice(body, il + 2, il + 1 + fl)
      mag  == Rat(DigitsToNat(ip) * Pow10(fl) + DigitsToNat(fp), Pow10(fl))
  IN  IF il + fl = 0 THEN NaN
      ELSE IF neg THEN <<-mag[1], mag[2]>> ELSE mag

\* The unit glyphs Yi = 億, Bai = 百, Wan = 萬.
Yi == <<"Yi">>
BaiWan == <<"Bai", "Wan">>
Wan == <<"Wan">>

\* coerceNumber(v), t being typeof v: the sort-value coercer.
coerceNumber(t, v) ==
  IF t = "number" THEN v
  ELSE IF v = Undef THEN Zero
  ELSE
    LET s    == Trim(StripCommas(v))
        pct  == parseFloat(ReplaceFirstPercent(s))
        mult == IF Includes(s, Yi) THEN 100000000
                ELSE IF Includes(s, BaiWan) THEN 1000000
                ELSE IF Includes(s, Wan) THEN 10000
                ELSE 1
        n    == parseFloat(KeepNumeric(s))
    IN  IF s # <<>> /\ s[Len(s)] = "%"
        THEN IF pct = NaN THEN NaN ELSE RatDiv(pct, <<100, 1>>)
        ELSE IF n # NaN THEN Rat(n[1] * mult, n[2]) ELSE Zero

\* Cell texts for the two coercers: every text of at most MaxCoerceLen glyphs
\* of this alphabet, an absent value, and some longer amounts.
CoerceAlphabet == {"1", ".", "-", "%", "x", " ", ",", "Wan"}

MaxCoerceLen == 2

CoerceTexts ==
  UNION {[1..n -> CoerceAlphabet] : n \in 0..MaxCoerceLen}
    \cup {Undef,
          <<"1", ",", "2", "0", "0">>, <<"2", "5", "%">>, <<"2", ".", "5", "%">>,
          <<"1", ".", "2", ".", "3">>, <<"2", "Yi">>, <<"3", "Bai", "Wan">>,
          <<"1", ".", "5", "Wan">>, <<"x", "-", "7", "x">>, <<"%", "5", "%">>}

\* Values that are numbers already.
CoerceNumbers == {Zero, <<5, 2>>, <<-3, 1>>, NaN}

CoerceInputs ==
  [t : {"string"}, v : CoerceTexts] \cup [t : {"number"}, v : CoerceNumbers]

InitCoerce ==
  \E i \in CoerceInputs :
    InitIdle([fn |-> "coerce", t |-> i.t, v |-> i.v,
              numDone |-> FALSE, n |-> Zero, coerceDone |-> FALSE, c |-> Zero])

\* num(cell) on a cell of a parsed sheet
applyNum ==
  /\ probe.fn = "coerce" /\ probe.t = "string" /\ ~probe.numDone
  /\ probe' = [probe EXCEPT !.numDone = TRUE, !.n = num(probe.v)]
  /\ UNCHANGED app

\* coerceNumber(value)
applyCoerceNumber ==
  /\ probe.fn = "coerce" /\ ~probe.coerceDone
  /\ probe' = [probe EXCEPT !.coerceDone = TRUE, !.c = coerceNumber(probe.t, probe.v)]
  /\ UNCHANGED app

NextCoerce == applyNum \/ applyCoerceNumber

SpecCoerce == InitCoerce /\ [][NextCoerce]_vars

\* A value with no parsable numeric portion: null, empty, or text without
\* a digit.
NoNumericPortion(t, v) ==
  t = "string" /\ (v = Undef \/ \A i \in 1..Len(v) : ~IsDigit(v[i]))

\* C21: num and coerceNumber return a number for every input, and return 0
\* when the input is null, empty or a text with no parsable numeric portion.
C21_TotalCoercion ==
  probe.fn = "coerce" =>
    /\ probe.numDone =>
         /\ probe.n # NaN
         /\ NoNumericPortion(probe.t, probe.v) => probe.n = Zero
    /\ probe.coerceDone =>
         /\ probe.t = "string" => probe.c # NaN
         /\ NoNumericPortion(probe.t, probe.v) => probe.c = Zero

\* What holds of the coercers: num is total and gives 0 for every value
\* without a numeric portion; coerceNumber does so for every text that
\* does not end in a percent sign.
C21_ExceptPercent ==
  probe.fn = "coerce" =>
    /\ probe.numDone =>
         /\ probe.n # NaN
         /\ NoNumericPortion(probe.t, probe.v) => probe.n = Zero
    /\ (probe.coerceDone /\ probe.t = "string"
          /\ ~(probe.v # Undef /\ Trim(StripCommas(probe.v)) # <<>>
                 /\ Trim(StripCommas(probe.v))[Len(Trim(StripCommas(probe.v)))] = "%")) =>
         /\ probe.c # NaN
         /\ NoNumericPortion(probe.t, probe.v) => probe.c = Zero

\* coerceNumber has returned NaN for a text that ends in a percent sign and
\* holds no digit.
C21_PercentNaN ==
  /\ probe.fn = "coerce" /\ probe.coerceDone /\ probe.t = "string"
  /\ NoNumericPortion(probe.t, probe.v) /\ probe.v # Undef
  /\ probe.c = NaN

(* ------------------------- the detail table --------------------------- *)

SortKeys == {"month", "agent", "store", "open", "rev", "ratio"}

\* useState({ key: rev, dir: 'desc' })
DefaultSorter == [key |-> "rev", dir |-> "desc"]

\* getSortValue(row, key); the number fields of a row are numbers, so
\* coerceNumber returns them as they are.
getSortValue(row, key) ==
  CASE key = "month" -> IF row.month = Undef THEN <<>> ELSE row.month
    [] key = "agent" -> row.agent
    [] key = "store" -> row.store
    [] key = "open"  -> coerceNumber("number", row.open)
    [] key = "rev"   -> coerceNumber("number", row.rev)
    [] OTHER         -> row.ratio

\* av > bv on two texts or on two numbers.
SortValueGreater(key, av, bv) ==
  IF key \in {"month", "agent", "store"} THEN TextLess(bv, av) ELSE RatLess(bv, av)

\* The comparator of sortedRows: positive when a goes after b.
sortCompare(a, b, sorter) ==
  LET av == getSortValue(a, sorter.key)
      bv == getSortValue(b, sorter.key)
  IN  IF SortValueGreater(sorter.key, av, bv) THEN (IF sorter.dir = "asc" THEN 1 ELSE -1)
      ELSE IF SortValueGreater(sorter.key, bv, av) THEN (IF sorter.dir = "asc" THEN -1 ELSE 1)
      ELSE 0

\* Array.prototype.sort with that comparator (stable): each row goes after
\* the rows already placed that do not go after it.
RECURSIVE sortedRowsOf(_, _)
sortedRowsOf(fl, sorter) ==
  IF fl = <<>> THEN <<>>
  ELSE LET init == sortedRowsOf(Slice(fl, 1, Len(fl) - 1), sorter)
           x    == fl[Len(fl)]
           Place(done) ==
             LET after == {i \in 1..Len(done) : sortCompare(done[i], x, sorter) > 0}
                 at    == IF after = {} THEN Len(done) + 1
                          ELSE CHOOSE i \in after : \A j \in after : i <= j
             IN  Slice(done, 1, at - 1) \o <<x>> \o Slice(done, at, Len(done))
       IN  Place(init)

\* The dataset array after rowsX.sort(...) where rowsX = filtered: with no
\* criterion in force filtered is the dataset array itself (let d = rows),
\* and sorting it reorders the dataset.
rowsXSortedInPlace(rs, fl, sorter) ==
  IF fl = rs THEN sortedRowsOf(fl, sorter) ELSE rs

\* The dataset array after rowsX.sort(...) where rowsX = [...filtered]: the
\* copy is sorted, the dataset keeps its order.
rowsX(rs, fl, sorter) == rs

\* sortedRows, with the sorter kept in the probe of a detail session.
sortedRows == sortedRowsOf(filtered, probe.sorter)

\* toggleSort(key), and the render that follows it.
toggleSort(key) ==
  /\ probe.fn = "sort"
  /\ Ctl
  /\ probe' = [probe EXCEPT !.sorter =
                 IF probe.sorter.key = key
                 THEN [key |-> key, dir |-> IF probe.sorter.dir = "asc" THEN "desc" ELSE "asc"]
                 ELSE [key |-> key, dir |-> "desc"]]
  /\ rows' = rowsX(rows, filtered, probe'.sorter)
  /\ UNCHANGED <<selectedMonths, agent, merchant, excludeAgent, q, appendMode, batchMonth,
                 keyJoin, monthA, monthB, uploads, remote, filesLeft>>

\* How many files are uploaded and how many controls are changed in a
\* session of the detail table.
MaxDetailFiles == 1
MaxDetailCtl == 2

InitDetail ==
  /\ rows = seed
  /\ selectedMonths = SelectionEffect(seed, <<>>)
  /\ agent = ALL /\ merchant = ALL
  /\ excludeAgent = <<>> /\ q = <<>>
  /\ appendMode = TRUE
  /\ batchMonth = <<>>
  /\ keyJoin = "agent+store"
  /\ monthA = OrElse(monthSetOf(seed), 1, Undef)
  /\ monthB = OrElse(monthSetOf(seed), 2, OrElse(monthSetOf(seed), 1, Undef))
  /\ uploads = <<>>
  /\ remote \in {"none", "pending"}
  /\ filesLeft = MaxDetailFiles /\ ctlLeft = MaxDetailCtl
  /\ probe = [fn |-> "sort", sorter |-> DefaultSorter]

NextDetail ==
  \/ \E key \in SortKeys : toggleSort(key)
  \/ \E a \in {ALL} \cup Elems(agents) : setAgent(a)
  \/ \E t \in ExcludePool : setExcludeAgent(t)
  \/ \E t \in SearchPool : setQ(t)
  \/ \E kj \in {"agent+store", "store"} : setKeyJoin(kj)
  \/ \E m \in Elems(allMonths) : clickMonth(m, FALSE)
  \/ \E f \in FilePool : onFilesStart(<<f>>)
  \/ \E k \in 1..Len(uploads) : onFilesThrow(k)
  \/ \E k \in 1..Len(uploads) : onFilesFinish(k)
  \/ \E data \in RemotePool : remoteLoaded(data)
  \/ remoteFailed
  \/ clearData

\* Sessions in which the detail table is filtered and sorted.
SpecDetail == InitDetail /\ [][NextDetail]_vars

\* A step of a merge, of a clear or of a remote load.
DatasetStep ==
  \/ Len(uploads') < Len(uploads)
  \/ remote = "pending" /\ remote' = "done"
  \/ rows' = <<>> /\ ctlLeft' < ctlLeft

\* C22: filtering, sorting the detail table and computing the views and the
\* comparison leave the dataset as it is (same rows, same order, same
\* values): only a merge, a clear or a remote load changes it.
C22_DatasetFrame == [][rows' # rows => DatasetStep]_vars

\* The detail table shows the whole dataset in another order than the
\* dataset's, after a change of the sorter, with the comparison computed.
C22_Witness ==
  /\ probe.fn = "sort" /\ probe.sorter # DefaultSorter
  /\ rows = seed /\ filtered = rows
  /\ sortedRows # rows
  /\ Len(compareRows) > 0

(* ---------------------- claims about the file name -------------------- *)

\* The valid raw records of a list of files in file order, each with the
\* name of its file.
RECURSIVE NamedRaws(_)
NamedRaws(fs) ==
  IF fs = <<>> THEN <<>>
  ELSE [i \in 1..Len(ValidRaws(<<Head(fs)>>)) |->
          [raw |-> ValidRaws(<<Head(fs)>>)[i], name |-> Head(fs).name]]
       \o NamedRaws(Tail(fs))

\* C23: in the merge of an upload started with no batch month set, a row
\* whose own month did not resolve and whose file's name holds a month
\* gets the month of the file's name, not the sentinel.
C23_MonthFromName ==
  [][\A k \in 1..Len(uploads) :
       (Merges(k) /\ uploads[k].bm = <<>>) =>
         LET u    == uploads[k]
             base == IF u.am THEN rows ELSE <<>>
             inc  == NamedRaws(u.files)
         IN  \A i \in 1..Len(inc) :
               (OwnMonth(inc[i].raw) = Undef /\ normalizeMonth(inc[i].name) # Undef) =>
                 rows'[Len(base) + i].month = normalizeMonth(inc[i].name)]_vars

\* The dataset ends with a row that took the sentinel although the batch
\* month now in the input was inferred from a file name.
C23_SentinelDespiteName ==
  /\ rows # <<>> /\ rows[Len(rows)].month = Unspecified
  /\ batchMonth = T_2025("0", "9")
  /\ uploads = <<>> /\ ctlLeft = MaxCtl

(* ------------------ claims about the comparison selectors -------------- *)

\* A comparison selector is unset or names a month of the dataset.
SelectorInDataset(m) ==
  m = Undef \/ m = <<>> \/ \E i \in 1..Len(rows) : rows[i].month = m

\* C24: in every reachable state each comparison selector (month A, month
\* B) is unset or equal to a month that occurs in the dataset.
C24_SelectorsInDataset == SelectorInDataset(monthA) /\ SelectorInDataset(monthB)

\* The remote load has replaced the dataset and both selectors still name
\* months of the replaced rows.
C24_StaleAfterRemote ==
  /\ remote = "done" /\ rows # seed /\ rows # <<>>
  /\ ~SelectorInDataset(monthA) /\ ~SelectorInDataset(monthB)
  /\ filesLeft = MaxFiles /\ ctlLeft = MaxCtl

(* -------------------- claims about the month selection ---------------- *)

\* Every month of the dataset is selected and no other criterion is in force.
AllShown ==
  /\ Elems(selectedMonths) = Elems(allMonths)
  /\ agent = ALL /\ merchant = ALL
  /\ excludeTokens = <<>> /\ Trim(q) = <<>>

\* C25: after a merge made while every month of the dataset was selected
\* and the other criteria were neutral, and after the month-selection
\* effect, every row of the new dataset is in the filtered set.
C25_NewMonthsShown ==
  [][\A k \in 1..Len(uploads) :
       (Merges(k) /\ AllShown) =>
         filteredOf(rows', selectedMonths', agent, merchant, excludeAgent, q) = rows']_vars

\* A merge has added rows of months that are not selected: the detail table
\* hides them although no filter was ever set.
C25_NewMonthHidden ==
  /\ ctlLeft = MaxCtl /\ uploads = <<>> /\ remote = "none"
  /\ Len(rows) > Len(seed) /\ SubSeq(rows, 1, Len(seed)) = seed
  /\ filtered = seed

(* -------------------- claims about overlapping uploads ---------------- *)

\* Files of the overlapping uploads: names without a month, every file
\* with at least one valid row, no row in two files.
OverlapFiles ==
  CompareFiles \cup
  { [name |-> <<"b", ".", "c", "s", "v">>,
     data |-> <<RawBlankAgent, RawBadMonth>>, bad |-> FALSE] }

\* How many files are uploaded in a session of overlapping uploads.
MaxOverlapFiles == 3

InitOverlap ==
  /\ rows = seed
  /\ selectedMonths = SelectionEffect(seed, <<>>)
  /\ agent = ALL /\ merchant = ALL
  /\ excludeAgent = <<>> /\ q = <<>>
  /\ appendMode = TRUE
  /\ batchMonth = <<>>
  /\ keyJoin = "agent+store"
  /\ monthA = OrElse(monthSetOf(seed), 1, Undef)
  /\ monthB = OrElse(monthSetOf(seed), 2, OrElse(monthSetOf(seed), 1, Undef))
  /\ uploads = <<>>
  /\ remote = "none"
  /\ filesLeft = MaxOverlapFiles /\ ctlLeft = 0
  /\ probe = NoProbe

NextOverlap ==
  \/ \E fs \in SeqsUpTo(OverlapFiles, filesLeft) : onFilesStart(fs)
  \/ \E k \in 1..Len(uploads) : onFilesNext(k)
  \/ \E k \in 1..Len(uploads) : onFilesFinish(k)

\* Sessions of Append-mode uploads that may start while another is parsing.
SpecOverlap == InitOverlap /\ [][NextOverlap]_vars

\* The rows a list of these files is ingested as.
BatchRows(fs) == mergedOf(ParseRows(AllRaw(fs), <<>>), <<>>)

\* All lists of exactly n elements of S.
ListsOf(S, n) == IF n = 0 THEN {<<>>} ELSE {fs \in SeqsUpTo(S, n) : Len(fs) = n}

\* With no upload pending, the dataset is the rows present before followed
\* by the valid rows of as many files as were uploaded.
AllUploadsKept ==
  uploads = <<>> =>
    \E fs \in ListsOf(OverlapFiles, MaxOverlapFiles - filesLeft) :
      rows = seed \o BatchRows(fs)

\* C26: when Append-mode uploads overlap, each merge appends the valid rows
\* of its own upload to the dataset as it is then and leaves the other
\* upload pending, and after all of them completed the dataset is the rows
\* present before plus the valid rows of every uploaded file, each once.
C26_OverlappingAppends ==
  /\ []AllUploadsKept
  /\ [][\A k \in 1..Len(uploads) :
          Merges(k) => rows' = rows \o BatchRows(uploads[k].files)]_vars

\* Two uploads have completed, the one of a.csv before the one of d.csv and
\* b.csv: the dataset holds the rows of all three files after the seed.
C26_Witness ==
  /\ uploads = <<>> /\ filesLeft = 0
  /\ \E a, d, b \in OverlapFiles :
       /\ a.name[1] = "a" /\ d.name[1] = "d" /\ b.name[1] = "b"
       /\ rows = seed \o BatchRows(<<a>>) \o BatchRows(<<d, b>>)

(* ----------------------- claims about the remote load ------------------ *)

\* This step is the completion of the remote load.
RemoteCompletes == remote = "pending" /\ remote' = "done"

\* The positions of the dataset that hold rows added by an upload: those
\* after the seed, or all of them once the seed has been cleared or replaced.
UploadedPositions ==
  IF Len(rows) >= Len(seed) /\ SubSeq(rows, 1, Len(seed)) = seed
  THEN (Len(seed) + 1)..Len(rows)
  ELSE 1..Len(rows)

\* C27: rows added by an upload that completed while the remote load was in
\* flight are still in the dataset after the remote load completes.
C27_UploadSurvivesRemote ==
  [][RemoteCompletes =>
       \A i \in UploadedPositions : \E j \in 1..Len(rows') : rows'[j] = rows[i]]_vars

\* The remote load has completed after an upload did, and the dataset holds
\* the remote rows only: the uploaded row of Ab / Mx is gone.
C27_UploadLost ==
  /\ remote = "done" /\ uploads = <<>> /\ filesLeft = MaxFiles - 1 /\ ctlLeft = MaxCtl
  /\ rows = ParseRows(<<RawSep, RawOct>>, <<>>)
  /\ batchMonth = T_2025("0", "9")

\* The remote load has put its rows in the dataset.
RemoteRowsLoaded ==
  \E data \in RemotePool :
    ParseRows(data, <<>>) # <<>> /\ rows' = ParseRows(data, <<>>)

\* C28: a remote load that fails or yields no valid row leaves the dataset,
\* the comparison selectors and the month selection as they were: the
\* completion of a load changes any of them only by loading valid rows.
C28_FailedLoadKeepsState ==
  [][(RemoteCompletes /\ ~RemoteRowsLoaded) =>
       UNCHANGED <<rows, monthA, monthB, selectedMonths>>]_vars

\* The remote load has completed from the initial state without loading a
\* row: the seed, its months and its selectors are as constructed.
C28_Witness ==
  /\ remote = "done" /\ rows = seed
  /\ filesLeft = MaxFiles /\ ctlLeft = MaxCtl /\ uploads = <<>>
  /\ monthA = T_2025("0", "7") /\ monthB = T_2025("0", "8")
  /\ selectedMonths = allMonths

(* ------------------------ claims about the join key -------------------- *)

\* Files whose agent and merchant names hold underscores.
JoinFiles ==
  { [name |-> <<"u", ".", "c", "s", "v">>,
     data |-> << [Agent |-> <<"A", "_", "_">>, Store |-> <<"M">>, Open |-> <<"1", "0">>,
                  Revenue |-> <<"1">>, Month |-> T_2025("0", "7")] >>,
     bad |-> FALSE],
    [name |-> <<"v", ".", "c", "s", "v">>,
     data |-> << [Agent |-> <<"A">>, Store |-> <<"_", "_", "M">>, Open |-> <<"2", "0">>,
                  Revenue |-> <<"5">>, Month |-> T_2025("0", "8")] >>,
     bad |-> FALSE],
    [name |-> <<"w", ".", "c", "s", "v">>,
     data |-> << [Agent |-> <<"A", "_">>, Store |-> <<"M">>, Open |-> <<"3", "0">>,
                  Revenue |-> <<"7">>, Month |-> T_2025("0", "7")],
                 [Agent |-> <<"A">>, Store |-> <<"_", "M">>, Open |-> <<"4", "0">>,
                  Revenue |-> <<"9">>, Month |-> T_2025("0", "7")] >>,
     bad |-> FALSE] }

\* How many files are uploaded and how many controls are changed in a
\* session of the join key.
MaxJoinFiles == 2
MaxJoinCtl == 2

InitJoin ==
  /\ rows = seed
  /\ selectedMonths = SelectionEffect(seed, <<>>)
  /\ agent = ALL /\ merchant = ALL
  /\ excludeAgent = <<>> /\ q = <<>>
  /\ appendMode = TRUE
  /\ batchMonth = <<>>
  /\ keyJoin = "agent+store"
  /\ monthA = OrElse(monthSetOf(seed), 1, Undef)
  /\ monthB = OrElse(monthSetOf(seed), 2, OrElse(monthSetOf(seed), 1, Undef))
  /\ uploads = <<>>
  /\ remote = "none"
  /\ filesLeft = MaxJoinFiles /\ ctlLeft = MaxJoinCtl
  /\ probe = NoProbe

NextJoin ==
  \/ \E f \in JoinFiles \cup CompareFiles : onFilesStart(<<f>>)
  \/ \E k \in 1..Len(uploads) : onFilesFinish(k)
  \/ \E t \in ExcludePool : setExcludeAgent(t)
  \/ \E kj \in {"agent+store", "store"} : setKeyJoin(kj)
  \/ \E m \in {Undef} \cup Elems(monthSet) : setMonthA(m)
  \/ \E m \in {Undef} \cup Elems(monthSet) : setMonthB(m)
  \/ \E a \in {TRUE, FALSE} : setAppendMode(a)

\* Sessions that compare periods whose names hold underscores.
SpecJoin == InitJoin /\ [][NextJoin]_vars

\* The rows of the two periods and their (agent, merchant) pairs.
BothPeriods == PeriodRows(monthA) \cup PeriodRows(monthB)
PairOf(r) == <<r.agent, r.store>>

\* C29: under the agent+merchant key, rows with different (agent, merchant)
\* pairs have different join keys, and the comparison has exactly one row
\* per distinct pair present in period A or period B.
C29_PairKey ==
  (keyJoin = "agent+store" /\ BothSelected) =>
    /\ \A i, j \in BothPeriods :
         PairOf(rows[i]) # PairOf(rows[j]) =>
           keyFn(keyJoin, rows[i]) # keyFn(keyJoin, rows[j])
    /\ Len(compareRows) = Cardinality({PairOf(rows[i]) : i \in BothPeriods})

\* What holds of the comparison under the agent+merchant key: one row per
\* distinct join key of the two periods, and as many rows as pairs when no
\* name holds an underscore.
C29_OneRowPerKey ==
  (keyJoin = "agent+store" /\ BothSelected) =>
    /\ Len(compareRows) = Cardinality(PeriodKeys(monthA) \cup PeriodKeys(monthB))
    /\ (\A i \in BothPeriods : ~Includes(rows[i].agent \o rows[i].store, <<"_">>)) =>
         Len(compareRows) = Cardinality({PairOf(rows[i]) : i \in BothPeriods})

\* Two rows of different pairs share the join key A____M: the comparison
\* of 2025-07 with 2025-08 shows them as one row.
C29_Collision ==
  /\ keyJoin = "agent+store" /\ BothSelected
  /\ \E i, j \in BothPeriods :
       /\ PairOf(rows[i]) # PairOf(rows[j])
       /\ keyFn(keyJoin, rows[i]) = keyFn(keyJoin, rows[j])
       /\ rows[i].month # rows[j].month
  /\ Len(compareRows) < Cardinality({PairOf(rows[i]) : i \in BothPeriods})

(* --------------------- claims about the summary cards ------------------ *)

\* sum(m, f): baseRowsForCompare.filter(r => r.month === m).reduce((s, r) => s + f(r), 0)
RECURSIVE sum(_, _, _)
sum(base, m, f) ==
  IF base = <<>> THEN Zero
  ELSE LET init == sum(Slice(base, 1, Len(base) - 1), m, f)
           r    == base[Len(base)]
       IN  IF r.month = m THEN RatAdd(init, r[f]) ELSE init

\* The summary cards over the comparison table: openA, openB, revA, revB.
summaryCards(base, mA, mB) ==
  [openA |-> sum(base, mA, "open"), openB |-> sum(base, mB, "open"),
   revA  |-> sum(base, mA, "rev"),  revB  |-> sum(base, mB, "rev")]

\* The total of column f of the comparison table out.
RECURSIVE ColumnTotal(_, _)
ColumnTotal(out, f) ==
  IF out = <<>> THEN Zero
  ELSE RatAdd(ColumnTotal(Slice(out, 1, Len(out) - 1), f), out[Len(out)][f])

\* The comparison table out and the cards agree on the four totals.
TableAgreesWithCards(out, cards) ==
  /\ ColumnTotal(out, "openA") = cards.openA
  /\ ColumnTotal(out, "openB") = cards.openB
  /\ ColumnTotal(out, "revA") = cards.revA
  /\ ColumnTotal(out, "revB") = cards.revB

\* C30: with two periods selected, the side-A and side-B open and revenue
\* values of the comparison rows add up to the totals of the period-A and
\* period-B rows shown in the summary cards.
C30_TableMatchesCards ==
  BothSelected =>
    TableAgreesWithCards(compareRows, summaryCards(baseRowsForCompare, monthA, monthB))

\* No join key occurs twice among the rows of period m.
KeysDistinctIn(m) ==
  \A i, j \in PeriodRows(m) :
    keyFn(keyJoin, rows[i]) = keyFn(keyJoin, rows[j]) => i = j

\* What holds: the table and the cards agree when no join key occurs twice
\* within a period.
C30_WhenKeysDistinct ==
  (BothSelected /\ KeysDistinctIn(monthA) /\ KeysDistinctIn(monthB)) =>
    TableAgreesWithCards(compareRows, summaryCards(baseRowsForCompare, monthA, monthB))

\* Period A holds the merchant wan hao under two agents and the join key is
\* the merchant: the table shows the open amount of the later row, the card
\* shows the sum of both.
C30_CardAboveTable ==
  /\ BothSelected /\ keyJoin = "store" /\ ~KeysDistinctIn(monthA)
  /\ RatLess(ColumnTotal(compareRows, "openA"),
             summaryCards(baseRowsForCompare, monthA, monthB).openA)
  /\ excludeAgent = <<>>

====
